---------------------------- MODULE Spec2Model ----------------------------
(***************************************************************************)
(* Model of the clusterloader2 core: the chaos NodeKiller                  *)
(* (pkg/chaos/nodes.go) and WaitForPods (pkg/measurement/util).            *)
(***************************************************************************)
EXTENDS Integers, Naturals, Sequences, FiniteSets, TLC

(***************************************************************************)
(* Bounds of the model.                                                    *)
(***************************************************************************)
\* node names known to the cluster in the concurrent NodeKiller model
NumNodeNames == 3
\* largest namespaceCount of CreateAutomanagedNamespaces
MaxNamespaces == 3
\* calls on one Framework
MaxFwCalls == 3
\* rounds of the fixed cluster that are told apart
MaxSurvivorRounds == 3
\* rounds of wait.JitterUntil that the model follows
MaxRounds == 2
\* Prometheus pods a listing of the monitoring namespace can hold
MaxPromPods == 1
\* largest eligible-set size the node-count computation is applied to
MaxEligible == 50
\* rounds the 10-node scenario is followed for
ScenarioRounds == 4
\* pods a snapshot of the pod store can hold
MaxPods == 2
\* polls of WaitForPods that the model follows
MaxPolls == 2
\* Execute and Dispose calls on one measurement instance
MaxCalls == 4
\* samples the scheduling-throughput samplers append
MaxSamples == 2
\* API calls of few kinds in one Gather
MaxApiCalls == 6
\* API calls of every verb and scope in one Gather
MaxWideCalls == 2
\* longest series of many values the summary is computed from
MaxSeries == 4
\* longest series of two values the summary is computed from
MaxLongSeries == 12
\* largest scheduled count a listing of the pod store shows
MaxScheduled == 1
\* largest ceiling a resource constraints file names
MaxCeiling == 1
\* largest 99th-percentile usage (CPU, and memory) of a container
MaxUsage == 2
\* iterations counted of a loop that has no timeout
MaxLoopChecks == 3

(***************************************************************************)
(* float64 arithmetic.  A float is [bits, exp]: bits is the significand,   *)
(* most significant bit first, without leading zeros and at most 53 bits   *)
(* wide (54 only as 2^53 after a carry); its value is bits * 2^exp.        *)
(* Zero is the empty significand.                                          *)
(***************************************************************************)
\* width of the float64 significand (IEEE 754 binary64)
MantBits == 53

Front(s) == SubSeq(s, 1, Len(s) - 1)

Last(s) == s[Len(s)]

RECURSIVE NatBits(_)
\* binary digits of a natural number, most significant first (<<>> for 0)
NatBits(n) == IF n = 0 THEN << >> ELSE NatBits(n \div 2) \o << n % 2 >>

RECURSIVE BitsNat(_)
\* the natural number a (short) bit sequence denotes
BitsNat(b) == IF b = << >> THEN 0 ELSE 2 * BitsNat(Front(b)) + Last(b)

RECURSIVE StripZeros(_)
StripZeros(b) == IF b # << >> /\ b[1] = 0 THEN StripZeros(Tail(b)) ELSE b

RECURSIVE IncBits(_)
\* significand + 1 (the carry may widen it by one bit)
IncBits(b) ==
    IF b = << >> THEN << 1 >>
    ELSE IF Last(b) = 0 THEN Front(b) \o << 1 >>
    ELSE IncBits(Front(b)) \o << 0 >>

\* round-to-nearest-even of an exact significand to MantBits bits;
\* sticky says that non-zero digits follow the ones given
RoundNearestEven(b, exp, sticky) ==
    IF Len(b) <= MantBits
    THEN [bits |-> b, exp |-> exp]
    ELSE LET kept  == SubSeq(b, 1, MantBits)
             guard == b[MantBits + 1]
             rest  == sticky \/ \E i \in (MantBits + 2)..Len(b) : b[i] = 1
             up    == guard = 1 /\ (rest \/ kept[MantBits] = 1)
         IN  [bits |-> IF up THEN IncBits(kept) ELSE kept,
              exp  |-> exp + (Len(b) - MantBits)]

RECURSIVE FracBits(_, _, _)
\* the next k binary digits of rem/den, for 0 <= rem < den
FracBits(rem, den, k) ==
    IF k = 0 THEN << >>
    ELSE IF 2 * rem >= den
         THEN << 1 >> \o FracBits(2 * rem - den, den, k - 1)
         ELSE << 0 >> \o FracBits(2 * rem, den, k - 1)

RECURSIVE FracRem(_, _, _)
\* the remainder left after those k digits
FracRem(rem, den, k) ==
    IF k = 0 THEN rem
    ELSE IF 2 * rem >= den
         THEN FracRem(2 * rem - den, den, k - 1)
         ELSE FracRem(2 * rem, den, k - 1)

RECURSIVE LeadingShift(_, _)
\* how many doublings bring rem/den (0 < rem < den) to 1/2 or above
LeadingShift(rem, den) ==
    IF 2 * rem >= den THEN 0 ELSE 1 + LeadingShift(2 * rem, den)

RECURSIVE Pow2(_)
Pow2(k) == IF k = 0 THEN 1 ELSE 2 * Pow2(k - 1)

\* the float64 nearest to the decimal num/den, as the configuration's
\* FailureRate is parsed (strconv.ParseFloat rounds to nearest, ties to even)
Float64Of(num, den) ==
    IF num = 0 THEN [bits |-> << >>, exp |-> 0]
    ELSE LET ip   == NatBits(num \div den)
             r0   == num % den
             lead == IF ip = << >> /\ r0 # 0 THEN LeadingShift(r0, den) ELSE 0
             r1   == r0 * Pow2(lead)
             need == MantBits + 1 - Len(ip)
             fb   == FracBits(r1, den, need)
             st   == FracRem(r1, den, need) # 0
         IN  RoundNearestEven(ip \o fb, -(lead + need), st)

Reverse(s) == [i \in 1..Len(s) |-> s[Len(s) + 1 - i]]

RECURSIVE MulCarry(_, _, _, _)
\* digits i..1 of the significand b times n, plus carry; least significant
\* digit first
MulCarry(b, i, n, carry) ==
    IF i = 0 THEN Reverse(NatBits(carry))
    ELSE LET t == b[i] * n + carry
         IN  << t % 2 >> \o MulCarry(b, i - 1, n, t \div 2)

\* exact product of a significand and a small natural number
MulBits(b, n) == StripZeros(Reverse(MulCarry(b, Len(b), n, 0)))

\* f * float64(n): the exact product, rounded once (n is exact in float64)
MulFloat(f, n) ==
    IF f.bits = << >> \/ n = 0 THEN [bits |-> << >>, exp |-> 0]
    ELSE RoundNearestEven(MulBits(f.bits, n), f.exp, FALSE)

\* Go's int(f) for a non-negative float: truncation toward zero
TruncFloat(f) ==
    IF f.bits = << >> THEN 0
    ELSE IF f.exp >= 0 THEN BitsNat(f.bits) * Pow2(f.exp)
    ELSE IF Len(f.bits) + f.exp <= 0 THEN 0
    ELSE BitsNat(SubSeq(f.bits, 1, Len(f.bits) + f.exp))

\* float64(n) / float64(d) for integers n >= 0 and d > 0 that float64
\* holds exactly: the quotient, rounded once
DivFloat(n, d) == Float64Of(n, d)

\* Go's int(math.Ceil(f)) for a non-negative float
CeilFloat(f) ==
    IF f.bits # << >> /\ f.exp < 0
          /\ \E i \in 1..Len(f.bits) :
                 i > Len(f.bits) + f.exp /\ f.bits[i] = 1
    THEN TruncFloat(f) + 1
    ELSE TruncFloat(f)

(***************************************************************************)
(* State.                                                                  *)
(***************************************************************************)
VARIABLES
    \* NodeKiller (pkg/chaos/nodes.go)
    failureRate,  \* config.FailureRate as configured: the decimal num/den
                  \* (in the fixed cluster: the float64 it is parsed into)
    stopCh,       \* TRUE once the stop channel of Run is closed
    pc,           \* position of the goroutine that executes Run
    round,        \* invocations of the JitterUntil callback so far
    killedNodes,  \* NodeKiller.killedNodes
    nodes,        \* the slice pickNodes returned, as kill ranges over it
    idx,          \* position of kill's range loop in nodes
    wg,           \* counter of kill's sync.WaitGroup
    workers,      \* per node: the goroutine kill spawned for it
    allNodes,     \* pickNodes' node listing, kept until kill is entered
    promPods,     \* pickNodes' monitoring pod listing (NodeName of each pod)
    history,      \* ghost: per round that picked, what was picked from what
    inFlight,     \* ghost: workers were running when stopCh was closed
    \* the node count of pickNodes on its own (nodes.go 101-105)
    eligibleLen,  \* len(nodes) after the filter
    pickLen,      \* << len of the slice returned >>; << >> before
    \* WaitForPods (pkg/measurement/util/wait_for_pods.go)
    wfpPc,        \* position of the goroutine that executes WaitForPods
    wfpStopCh,    \* TRUE once the stop channel of WaitForPods is closed
    desired,      \* options.DesiredPodCount
    oldPods,      \* the local oldPods
    podsStatus,   \* the local podsStatus
    scaling,      \* the local scaling
    wfpResult,    \* what WaitForPods returned: its error, and the running
                  \* count the timeout error names
    storeStops,   \* calls of ps.Stop()
    polls,        \* polls done
    convergedSeen, \* ghost: some poll listed a converged snapshot
    wfpReports,   \* the anomalies the latest poll logged with Errorf
    wfpDiff,      \* ghost: what disappeared and appeared in the latest poll
    \* one measurement instance and the calls made on it
    mKind,        \* which measurement the instance is
    mCalls,       \* Execute and Dispose calls made so far
    mLast,        \* the latest call: its action and what it returned
    mExt,         \* the external calls the latest call made
    mStarted,     \* ghost: a start succeeded and no gather or Dispose
                  \* was called since
    mEverStarted, \* ghost: some start succeeded
    mOps,         \* ghost: the actions of the calls made, in call order
    \* schedulingThroughputMeasurement
    stIsRunning,  \* s.isRunning
    stStopCh,     \* s.stopCh: the channel it holds, NoChan for nil
    stChans,      \* channels made so far
    stClosed,     \* the channels that are closed
    stSamplers,   \* the goroutines start launched, in launch order
    stSeries,     \* s.schedulingThroughputs: per sample its numerator (the
                  \* throughput is delta over the interval's seconds) and,
                  \* as a ghost, the sampler that appended it
    stSummary,    \* << throughputSummary >> of the latest gather that
                  \* returned a summary; << >> before
    \* resourceUsageMetricMeasurement
    ruGatherer,   \* e.gatherer: the gatherer it holds, NoGatherer for nil
    ruGatherers,  \* the gatherers made so far, each gathering or stopped
    \* probesMeasurement
    prFramework,  \* p.framework != nil
    prStartTime,  \* !p.startTime.IsZero()
    prNamespace,  \* the probes namespace exists in the cluster
    prSkip,       \* the run is on kubemark or has Prometheus disabled
    \* apiResponsivenessGatherer.Gather
    apiPc,        \* position of the goroutine that executes Gather
    metrics,      \* metrics.ApiCalls
    apiIdx,       \* position of the range loop in metrics.ApiCalls
    top,          \* the local top
    badMetrics,   \* the local badMetrics: the calls whose error it holds
    apiLogged,    \* the calls the loop logged with Infof
    \* resourceUsageMetricMeasurement: constraints and verifySummary
    rcPc,         \* created, started (constraints read), verified
    rcFile,       \* ghost: the constraints file as TemplateInto decoded it
    resourceConstraints, \* e.resourceConstraints
    rcSummary,    \* summary.Get("99"), the argument of verifySummary
    rcResult,     \* what verifySummary returned: << >> before, then nil or
                  \* the violation error with its count and its messages
    \* the retry and poll loops
    loop,         \* one loop: which it is, where it is, the checks it made
    \* Framework (automanaged namespaces)
    fw            \* the counter, the call in progress, the namespaces

nkVars == << failureRate, stopCh, pc, round, killedNodes, nodes, idx, wg,
             workers, allNodes, promPods, history, inFlight >>

countVars == << eligibleLen, pickLen >>

wfpVars == << wfpPc, wfpStopCh, desired, oldPods, podsStatus, scaling,
              wfpResult, storeStops, polls, convergedSeen, wfpReports,
              wfpDiff >>

callVars == << mKind, mCalls, mLast, mExt, mStarted, mEverStarted, mOps >>

stVars == << stIsRunning, stStopCh, stChans, stClosed, stSamplers, stSeries,
            stSummary >>

ruVars == << ruGatherer, ruGatherers >>

prVars == << prFramework, prStartTime, prNamespace, prSkip >>

apiVars == << apiPc, metrics, apiIdx, top, badMetrics, apiLogged >>

verifyVars == << rcPc, rcFile, resourceConstraints, rcSummary, rcResult >>

loopVars == << loop >>

fwVars == << fw >>

measurementVars == << callVars, stVars, ruVars, prVars, apiVars, verifyVars >>

\* what the NodeKiller run leaves alone
nonNK == << countVars, wfpVars, measurementVars, loopVars, fwVars >>

\* what WaitForPods leaves alone
nonWFP == << nkVars, countVars, measurementVars, loopVars, fwVars >>

\* what the calls on a measurement leave alone
nonMeasurement ==
    << nkVars, countVars, wfpVars, verifyVars, loopVars, fwVars >>

\* what verifySummary and the reading of the constraints leave alone
nonVerify == << nkVars, countVars, wfpVars, callVars, stVars, ruVars, prVars,
                apiVars, loopVars, fwVars >>

\* what a retry loop leaves alone
nonLoop == << nkVars, countVars, wfpVars, measurementVars, fwVars >>

\* what the calls on the Framework leave alone
nonFramework ==
    << nkVars, countVars, wfpVars, measurementVars, loopVars >>

vars == << nkVars, countVars, wfpVars, measurementVars, loopVars, fwVars >>

(***************************************************************************)
(* NodeKiller.                                                             *)
(***************************************************************************)
NodeNames == 1..NumNodeNames

\* Spec.NodeName of a pod that is not assigned to a node ("")
NoNode == 0

\* failure rates the model configures
FailureRates ==
    { [num |-> 0, den |-> 1], [num |-> 3, den |-> 10], [num |-> 58, den |-> 100],
      [num |-> 7, den |-> 10], [num |-> 1, den |-> 1], [num |-> 3, den |-> 2] }

\* failure rates the concurrent model is run with
RunRates == { [num |-> 7, den |-> 10], [num |-> 3, den |-> 2] }

Range(s) == { s[i] : i \in DOMAIN s }

\* sequences of exactly k distinct elements of S: the first k places of the
\* shuffles of S
RECURSIVE Arrangements(_, _)
Arrangements(S, k) ==
    IF k = 0 THEN { << >> }
    ELSE UNION { { << x >> \o t : t \in Arrangements(S \ {x}, k - 1) } : x \in S }

\* listings of at most k pods, each given by its Spec.NodeName
RECURSIVE PodListings(_)
PodListings(k) ==
    IF k = 0 THEN { << >> }
    ELSE PodListings(k - 1) \cup
         { l \o << n >> : l \in { m \in PodListings(k - 1) : Len(m) = k - 1 },
                          n \in NodeNames \cup {NoNode} }

\* nodes.go 85-90: the nodes that host a Prometheus pod
NodesHasPrometheusPod(pods) ==
    { pods[i] : i \in { j \in DOMAIN pods : pods[j] # NoNode } }

\* the filter without its killedNodes test
EligibleIgnoringKilled(all, pods, killed) ==
    { n \in all : n \notin NodesHasPrometheusPod(pods) }

\* the filter without its Prometheus test
EligibleIgnoringPrometheus(all, pods, killed) ==
    { n \in all : n \notin killed }

\* nodes.go 92-97: the filter over allNodes
Eligible(all, pods, killed) ==
    { n \in all : n \notin NodesHasPrometheusPod(pods) /\ n \notin killed }

\* a count that is one more than the truncated product
numNodesPlusOne(rate, n) ==
    TruncFloat(MulFloat(Float64Of(rate.num, rate.den), n)) + 1

\* nodes.go 101: int(k.config.FailureRate * float64(len(nodes)))
numNodes(rate, n) == TruncFloat(MulFloat(Float64Of(rate.num, rate.den), n))

\* the node counts of every configured rate, computed once
NumNodesTable ==
    [ r \in FailureRates, n \in 0..MaxEligible |-> numNodes(r, n) ]

\* nodes.go 102-105: how many of the n shuffled nodes are returned
PickCount(rate, n) ==
    IF n > NumNodesTable[rate, n] THEN NumNodesTable[rate, n] ELSE n

\* nodes.go 98-105: the slices pickNodes can return for an eligible set
PickResults(rate, eligible) ==
    Arrangements(eligible, PickCount(rate, Cardinality(eligible)))

IdleWorker == [pc |-> "idle", log |-> << >>, round |-> 0]

Alive(w) == w.pc \in {"stop", "sleep", "reboot"}

\* a kill loop that starts the goroutine without marking the node
MarkKilledOmitted(killed, node) == killed

\* nodes.go 112: k.killedNodes.Insert(node.Name)
MarkKilled(killed, node) == killed \cup {node}

\* a kill that returns without waiting for its goroutines
WaitDoneNoJoin(counter) == TRUE

\* nodes.go 134: wg.Wait() returns when the counter is zero
WaitDone(counter) == counter = 0

\* a worker whose error returns skip wg.Done()
WgDoneOnSuccessOnly(counter, failed) ==
    IF failed THEN counter ELSE counter - 1

\* nodes.go 115: defer wg.Done() runs on every return of the worker
WgDone(counter, failed) == counter - 1

\* a loop that does not look at stopCh before calling the function
StopIgnored(ch) == FALSE

\* wait.JitterUntil: the select on stopCh at the top of its loop
StopRequested(ch) == ch

\* the count computation is not under study
IdleCount == eligibleLen = 0 /\ pickLen = << >>

\* WaitForPods has not been called
IdleWFP ==
    /\ wfpPc = "idle"
    /\ wfpStopCh = FALSE
    /\ desired = 0
    /\ oldPods = << >>
    /\ podsStatus = << >>
    /\ scaling = "uninitialized"
    /\ wfpResult = << >>
    /\ storeStops = 0
    /\ polls = 0
    /\ convergedSeen = FALSE
    /\ wfpReports = {}
    /\ wfpDiff = << >>

NoChan == 0

\* api_responsiveness_prometheus.go 62
topToPrint == 5

NoGatherer == 0

NoCall == [op |-> "none", summary |-> FALSE, err |-> "nil"]

\* the fields of the three stateful measurements right after construction
FreshInstance ==
    /\ stIsRunning = FALSE
    /\ stStopCh = NoChan
    /\ stChans = 0
    /\ stClosed = {}
    /\ stSamplers = << >>
    /\ stSeries = << >>
    /\ stSummary = << >>
    /\ ruGatherer = NoGatherer
    /\ ruGatherers = << >>
    /\ prFramework = FALSE
    /\ prStartTime = FALSE
    /\ prNamespace = FALSE
    /\ prSkip = FALSE

\* Gather of the API responsiveness measurement is not executing
IdleApi ==
    /\ apiPc = "idle"
    /\ metrics = << >>
    /\ apiIdx = 0
    /\ top = 0
    /\ badMetrics = << >>
    /\ apiLogged = << >>

NoCallsYet ==
    /\ mCalls = 0
    /\ mLast = NoCall
    /\ mExt = {}
    /\ mStarted = FALSE
    /\ mEverStarted = FALSE
    /\ mOps = << >>

\* no call is made on a measurement
IdleCalls ==
    /\ mKind = "none"
    /\ NoCallsYet
    /\ FreshInstance
    /\ IdleApi

\* verifySummary is not under study
IdleVerify ==
    /\ rcPc = "idle"
    /\ rcFile = << >>
    /\ resourceConstraints = << >>
    /\ rcSummary = << >>
    /\ rcResult = << >>

\* no measurement is under study
IdleMeasurement == IdleCalls /\ IdleVerify

\* no retry loop is under study
IdleLoops == loop = << >>

\* no Framework is under study
IdleFramework == fw = << >>

InitNK ==
    /\ failureRate \in RunRates
    /\ stopCh = FALSE
    /\ pc = "sleep"
    /\ round = 0
    /\ killedNodes = {}
    /\ nodes = << >>
    /\ idx = 0
    /\ wg = 0
    /\ workers = [n \in NodeNames |-> IdleWorker]
    /\ allNodes = {}
    /\ promPods = << >>
    /\ history = << >>
    /\ inFlight = FALSE

\* nodes.go 62: the first jittered interval passes
Sleep ==
    /\ pc = "sleep"
    /\ pc' = "loop"
    /\ UNCHANGED << failureRate, stopCh, round, killedNodes, nodes, idx, wg,
                    workers, allNodes, promPods, history, inFlight >>
    /\ UNCHANGED nonNK

\* wait.JitterUntil (nodes.go 63-70): return when stopCh is closed, else
\* call the function
LoopCheck ==
    /\ pc = "loop"
    /\ IF StopRequested(stopCh)
       THEN pc' = "done" /\ round' = round
       ELSE round < MaxRounds /\ pc' = "pick" /\ round' = round + 1
    /\ UNCHANGED << failureRate, stopCh, killedNodes, nodes, idx, wg,
                    workers, allNodes, promPods, history, inFlight >>
    /\ UNCHANGED nonNK

\* a run that a failed listing brings to its end
PickNodesFailsEndsRun ==
    /\ pc = "pick"
    /\ pc' = "done"
    /\ UNCHANGED << failureRate, stopCh, round, killedNodes, nodes, idx, wg,
                    workers, allNodes, promPods, history, inFlight >>
    /\ UNCHANGED nonNK

\* nodes.go 74-84, 65-68: a listing fails, the round ends with a log line
PickNodesFails ==
    /\ pc = "pick"
    /\ pc' = "timer"
    /\ UNCHANGED << failureRate, stopCh, round, killedNodes, nodes, idx, wg,
                    workers, allNodes, promPods, history, inFlight >>
    /\ UNCHANGED nonNK

\* nodes.go 73-106, for the node listings and pod listings the cluster can
\* answer with
PickNodesFrom(nodeListings, podListings) ==
    /\ pc = "pick"
    /\ \E all \in nodeListings, pods \in podListings :
         /\ allNodes' = all
         /\ promPods' = pods
         /\ nodes' \in PickResults(failureRate, Eligible(all, pods, killedNodes))
    /\ history' = Append(history, [picked |-> Range(nodes'),
                                   killed |-> killedNodes])
    /\ pc' = "picked"
    /\ UNCHANGED << failureRate, stopCh, round, killedNodes, idx, wg, workers,
                    inFlight >>
    /\ UNCHANGED nonNK

\* nodes.go 73-106 in a cluster whose nodes come and go
PickNodes == PickNodesFrom(SUBSET NodeNames, PodListings(MaxPromPods))

\* nodes.go 69, 109-110: kill is entered, wg.Add(len(nodes))
KillStart ==
    /\ pc = "picked"
    /\ wg' = wg + Len(nodes)
    /\ idx' = 1
    /\ allNodes' = {}
    /\ promPods' = << >>
    /\ pc' = "kill"
    /\ UNCHANGED << failureRate, stopCh, round, killedNodes, nodes, workers,
                    history, inFlight >>
    /\ UNCHANGED nonNK

\* nodes.go 111-133: one iteration of the range loop: mark the node, then
\* start its goroutine
KillSpawn ==
    /\ pc = "kill"
    /\ idx <= Len(nodes)
    /\ killedNodes' = MarkKilled(killedNodes, nodes[idx])
    /\ workers' = [workers EXCEPT ![nodes[idx]] =
                       [pc |-> "stop", log |-> << >>, round |-> round]]
    /\ idx' = idx + 1
    /\ UNCHANGED << failureRate, stopCh, pc, round, nodes, wg, allNodes,
                    promPods, history, inFlight >>
    /\ UNCHANGED nonNK

\* nodes.go 133-134: the range loop is over, wg.Wait() is called
KillLoopEnd ==
    /\ pc = "kill"
    /\ idx > Len(nodes)
    /\ pc' = "wait"
    /\ UNCHANGED << failureRate, stopCh, round, killedNodes, nodes, idx, wg,
                    workers, allNodes, promPods, history, inFlight >>
    /\ UNCHANGED nonNK

\* nodes.go 134-135: wg.Wait() returns and so does kill; the goroutines
\* that have returned are gone
KillWait ==
    /\ pc = "wait"
    /\ WaitDone(wg)
    /\ pc' = "timer"
    /\ nodes' = << >>
    /\ idx' = 0
    /\ workers' = [n \in NodeNames |->
                      IF workers[n].pc = "exit" THEN IdleWorker ELSE workers[n]]
    /\ UNCHANGED << failureRate, stopCh, round, killedNodes, wg, allNodes,
                    promPods, history, inFlight >>
    /\ UNCHANGED nonNK

\* a worker that logs the error of the stop command and goes on
WorkerStopGoesOn(n) ==
    /\ workers[n].pc = "stop"
    /\ \E ok \in BOOLEAN :
         workers' = [workers EXCEPT ![n].pc = "sleep",
                        ![n].log = Append(@, IF ok THEN "stop" ELSE "stopErr")]
    /\ UNCHANGED << failureRate, stopCh, pc, round, killedNodes, nodes, idx,
                    wg, allNodes, promPods, history, inFlight >>
    /\ UNCHANGED nonNK

\* nodes.go 117-122: SSH "systemctl stop docker kubelet"; on an error the
\* worker logs and returns
WorkerStop(n) ==
    /\ workers[n].pc = "stop"
    /\ \E ok \in BOOLEAN :
         IF ok
         THEN /\ workers' = [workers EXCEPT ![n].pc = "sleep",
                                 ![n].log = Append(@, "stop")]
              /\ wg' = wg
         ELSE /\ workers' = [workers EXCEPT ![n].pc = "exit",
                                 ![n].log = Append(@, "stopErr")]
              /\ wg' = WgDone(wg, TRUE)
    /\ UNCHANGED << failureRate, stopCh, pc, round, killedNodes, nodes, idx,
                    allNodes, promPods, history, inFlight >>
    /\ UNCHANGED nonNK

\* nodes.go 124: time.Sleep(SimulatedDowntime)
WorkerSleep(n) ==
    /\ workers[n].pc = "sleep"
    /\ workers' = [workers EXCEPT ![n].pc = "reboot",
                       ![n].log = Append(@, "sleep")]
    /\ UNCHANGED << failureRate, stopCh, pc, round, killedNodes, nodes, idx,
                    wg, allNodes, promPods, history, inFlight >>
    /\ UNCHANGED nonNK

\* nodes.go 126-132: SSH "sudo reboot"; the worker returns either way
WorkerReboot(n) ==
    /\ workers[n].pc = "reboot"
    /\ \E ok \in BOOLEAN :
         /\ workers' = [workers EXCEPT ![n].pc = "exit",
                            ![n].log = Append(@, IF ok THEN "reboot"
                                                       ELSE "rebootErr")]
         /\ wg' = WgDone(wg, ~ok)
    /\ UNCHANGED << failureRate, stopCh, pc, round, killedNodes, nodes, idx,
                    allNodes, promPods, history, inFlight >>
    /\ UNCHANGED nonNK

\* wait.JitterUntil: the select at the bottom of its loop takes the timer
TimerFires ==
    /\ pc = "timer"
    /\ pc' = "loop"
    /\ UNCHANGED << failureRate, stopCh, round, killedNodes, nodes, idx, wg,
                    workers, allNodes, promPods, history, inFlight >>
    /\ UNCHANGED nonNK

\* wait.JitterUntil: the select at the bottom of its loop takes stopCh
TimerStopped ==
    /\ pc = "timer"
    /\ stopCh
    /\ pc' = "done"
    /\ UNCHANGED << failureRate, stopCh, round, killedNodes, nodes, idx, wg,
                    workers, allNodes, promPods, history, inFlight >>
    /\ UNCHANGED nonNK

\* the owner of stopCh closes it
CloseStop ==
    /\ ~stopCh
    /\ stopCh' = TRUE
    /\ inFlight' = \E n \in NodeNames : Alive(workers[n])
    /\ UNCHANGED << failureRate, pc, round, killedNodes, nodes, idx, wg,
                    workers, allNodes, promPods, history >>
    /\ UNCHANGED nonNK

Init ==
    InitNK /\ IdleCount /\ IdleWFP /\ IdleMeasurement /\ IdleLoops
        /\ IdleFramework

Next ==
    \/ Sleep
    \/ LoopCheck
    \/ PickNodesFails
    \/ PickNodes
    \/ KillStart
    \/ KillSpawn
    \/ KillLoopEnd
    \/ KillWait
    \/ \E n \in NodeNames : WorkerStop(n)
    \/ \E n \in NodeNames : WorkerSleep(n)
    \/ \E n \in NodeNames : WorkerReboot(n)
    \/ TimerFires
    \/ TimerStopped
    \/ CloseStop

Spec == Init /\ [][Next]_vars

(***************************************************************************)
(* The node count of pickNodes as a function of the failure rate and of    *)
(* the number of eligible nodes.                                           *)
(***************************************************************************)
CountInit ==
    /\ IdleLoops
    /\ IdleFramework
    /\ failureRate \in FailureRates
    /\ eligibleLen \in 0..MaxEligible
    /\ pickLen = << >>
    /\ stopCh = FALSE
    /\ pc = "pick"
    /\ round = 1
    /\ killedNodes = {}
    /\ nodes = << >>
    /\ idx = 0
    /\ wg = 0
    /\ workers = [n \in NodeNames |-> IdleWorker]
    /\ allNodes = {}
    /\ promPods = << >>
    /\ history = << >>
    /\ inFlight = FALSE
    /\ IdleWFP
    /\ IdleMeasurement

\* nodes.go 101-105 applied to eligibleLen shuffled nodes
CountNodes ==
    /\ pickLen = << >>
    /\ pickLen' = << PickCount(failureRate, eligibleLen) >>
    /\ UNCHANGED << eligibleLen, nkVars, wfpVars, measurementVars, loopVars,
                    fwVars >>

CountNext == CountNodes

CountSpec == CountInit /\ [][CountNext]_vars

(***************************************************************************)
(* The scenario of ten eligible nodes and failure rate 0.3: the rounds of  *)
(* Run one after the other, each round's kill taken as a whole.            *)
(***************************************************************************)
ScenarioPool == 1..10

ScenarioRate == [num |-> 3, den |-> 10]

ScenarioInit ==
    /\ IdleLoops
    /\ IdleFramework
    /\ failureRate = ScenarioRate
    /\ stopCh = FALSE
    /\ pc = "pick"
    /\ round = 1
    /\ killedNodes = {}
    /\ nodes = << >>
    /\ idx = 0
    /\ wg = 0
    /\ workers = [n \in NodeNames |-> IdleWorker]
    /\ allNodes = {}
    /\ promPods = << >>
    /\ history = << >>
    /\ inFlight = FALSE
    /\ IdleCount
    /\ IdleWFP
    /\ IdleMeasurement

RECURSIVE MarkAll(_, _)
\* nodes.go 111-112: the marks of the whole range loop
MarkAll(killed, slice) ==
    IF slice = << >> THEN killed
    ELSE MarkAll(MarkKilled(killed, Head(slice)), Tail(slice))

\* nodes.go 73-106: every node of the pool is listed, none hosts Prometheus
ScenarioPick == PickNodesFrom({ScenarioPool}, {<< >>})

\* nodes.go 108-135: kill from its call to its return: every node of the
\* slice is marked and its worker has come and gone
ScenarioKill ==
    /\ pc = "picked"
    /\ killedNodes' = MarkAll(killedNodes, nodes)
    /\ nodes' = << >>
    /\ allNodes' = {}
    /\ promPods' = << >>
    /\ pc' = "timer"
    /\ UNCHANGED << failureRate, stopCh, round, idx, wg, workers, history,
                    inFlight >>
    /\ UNCHANGED nonNK

\* wait.JitterUntil: the timer fires, stopCh is open, the function is called
ScenarioTick ==
    /\ pc = "timer"
    /\ round < ScenarioRounds
    /\ round' = round + 1
    /\ pc' = "pick"
    /\ UNCHANGED << failureRate, stopCh, killedNodes, nodes, idx, wg, workers,
                    allNodes, promPods, history, inFlight >>
    /\ UNCHANGED nonNK

ScenarioNext == ScenarioPick \/ ScenarioKill \/ ScenarioTick

ScenarioSpec == ScenarioInit /\ [][ScenarioNext]_vars

(***************************************************************************)
(* The rounds of Run in a cluster whose nodes stay the same, with a        *)
(* failure rate below 1: each round's kill taken as a whole, the           *)
(* Prometheus pods free to be listed on other nodes from round to round.   *)
(***************************************************************************)
\* the largest float64 below 1
BelowOne == [bits |-> [i \in 1..MantBits |-> 1], exp |-> -MantBits]

\* the parsed failure rates below 1 of the fixed cluster
SurvivorRates ==
    { Float64Of(3, 10), Float64Of(7, 10), Float64Of(99, 100), BelowOne }

\* a count that rounds the product up
PickCountRoundedUp(f, n) ==
    LET k == CeilFloat(MulFloat(f, n)) IN IF n > k THEN k ELSE n

\* nodes.go 101-105 for the parsed rate f and n shuffled nodes
PickCountOf(f, n) ==
    LET k == TruncFloat(MulFloat(f, n)) IN IF n > k THEN k ELSE n

SurvivorInit ==
    /\ IdleLoops
    /\ IdleFramework
    /\ failureRate \in SurvivorRates
    /\ stopCh = FALSE
    /\ pc = "pick"
    /\ round = 1
    /\ killedNodes = {}
    /\ nodes = << >>
    /\ idx = 0
    /\ wg = 0
    /\ workers = [n \in NodeNames |-> IdleWorker]
    /\ allNodes \in SUBSET NodeNames
    /\ promPods \in PodListings(MaxPromPods)
    /\ Eligible(allNodes, promPods, {}) # {}
    /\ history = << >>
    /\ inFlight = FALSE
    /\ IdleCount
    /\ IdleWFP
    /\ IdleMeasurement

\* nodes.go 73-106: the node listing is the same every round, the pod
\* listing is what the cluster answers with
SurvivorPick ==
    /\ pc = "pick"
    /\ \E pods \in PodListings(MaxPromPods) :
         /\ promPods' = pods
         /\ LET eligible == Eligible(allNodes, pods, killedNodes)
            IN  nodes' \in Arrangements(eligible,
                              PickCountOf(failureRate, Cardinality(eligible)))
    /\ pc' = "picked"
    /\ UNCHANGED << failureRate, stopCh, round, killedNodes, idx, wg, workers,
                    allNodes, history, inFlight >>
    /\ UNCHANGED nonNK

\* nodes.go 108-135: kill from its call to its return
SurvivorKill ==
    /\ pc = "picked"
    /\ killedNodes' = MarkAll(killedNodes, nodes)
    /\ nodes' = << >>
    /\ pc' = "timer"
    /\ UNCHANGED << failureRate, stopCh, round, idx, wg, workers, allNodes,
                    promPods, history, inFlight >>
    /\ UNCHANGED nonNK

\* wait.JitterUntil: the timer fires, stopCh is open, the function is
\* called; rounds past MaxSurvivorRounds are counted as that round
SurvivorTick ==
    /\ pc = "timer"
    /\ round' = IF round < MaxSurvivorRounds THEN round + 1 ELSE round
    /\ pc' = "pick"
    /\ UNCHANGED << failureRate, stopCh, killedNodes, nodes, idx, wg, workers,
                    allNodes, promPods, history, inFlight >>
    /\ UNCHANGED nonNK

SurvivorNext == SurvivorPick \/ SurvivorKill \/ SurvivorTick

SurvivorSpec == SurvivorInit /\ [][SurvivorNext]_vars

(***************************************************************************)
(* WaitForPods.                                                            *)
(***************************************************************************)
PodNames == 1..MaxPods

\* the phases a listed pod is in; every count of the waiter treats the
\* phase Unknown as it treats Pending, which stands for both
Phases == {"Pending", "Running", "Succeeded", "Failed"}

Absent == "absent"

\* what ps.List() can return: for each pod name, that it is not there or
\* the phase it is in
Snapshots == [PodNames -> Phases \cup {Absent}]

\* the pods of a snapshot: len(pods) is the size of this set
PodsOf(snap) == { p \in DOMAIN snap : snap[p] # Absent }

\* ComputePodsStartupStatus: the counts the waiter reads
ComputePodsStartupStatus(snap, expected) ==
    [ Expected |-> expected,
      Running  |-> Cardinality({ p \in PodsOf(snap) : snap[p] = "Running" }),
      Inactive |-> Cardinality({ p \in PodsOf(snap) :
                                    snap[p] \in {"Succeeded", "Failed"} }) ]

\* wait_for_pods.go 56: var podsStatus PodsStartupStatus
ZeroStatus == [Expected |-> 0, Running |-> 0, Inactive |-> 0]

\* wait_for_pods.go 58-65
ScalingOf(len, want) ==
    IF len = want THEN "none" ELSE IF len < want THEN "up" ELSE "down"

\* a waiter that only compares the running count
ConvergedRunningOnly(snap, status, want) == status.Running = want

\* wait_for_pods.go 91
Converged(snap, status, want) ==
    /\ Cardinality(PodsOf(snap)) = status.Running + status.Inactive
    /\ status.Running = want

\* DiffPods(oldPods, pods).DeletedPods(): the pods of the old snapshot that
\* the new one does not hold
DeletedPods(old, new) == PodsOf(old) \ PodsOf(new)

\* a diff that lists as added every pod that is in one snapshot only
AddedPodsEitherWay(old, new) ==
    (PodsOf(new) \ PodsOf(old)) \cup (PodsOf(old) \ PodsOf(new))

\* DiffPods(oldPods, pods).AddedPods(): the pods of the new snapshot that
\* the old one did not hold
AddedPods(old, new) == PodsOf(new) \ PodsOf(old)

\* wait_for_pods.go 79-81: the Errorf about disappeared pods, with the count
\* and the names it prints
DisappearedReport(dir, deleted, added) ==
    IF dir # "down" /\ Cardinality(deleted) > 0
    THEN { [kind |-> "disappeared", count |-> Cardinality(deleted),
            names |-> deleted] }
    ELSE {}

\* wait_for_pods.go 83-85: the Errorf about appeared pods, with the count
\* and the names it prints
AppearedReport(dir, deleted, added) ==
    IF dir # "up" /\ Cardinality(added) > 0
    THEN { [kind |-> "appeared", count |-> Cardinality(deleted),
            names |-> deleted] }
    ELSE {}

\* wait_for_pods.go 77-85: what one poll logs as anomalies
PollReports(dir, deleted, added) ==
    DisappearedReport(dir, deleted, added)
        \cup AppearedReport(dir, deleted, added)

\* wait_for_pods.go 71-72: the running count the timeout error names
TimeoutRunning(snap, status) == status.Running

IdleNK ==
    /\ failureRate = [num |-> 0, den |-> 1]
    /\ stopCh = FALSE
    /\ pc = "done"
    /\ round = 0
    /\ killedNodes = {}
    /\ nodes = << >>
    /\ idx = 0
    /\ wg = 0
    /\ workers = [n \in NodeNames |-> IdleWorker]
    /\ allNodes = {}
    /\ promPods = << >>
    /\ history = << >>
    /\ inFlight = FALSE

WaitInit ==
    /\ IdleLoops
    /\ IdleFramework
    /\ IdleNK
    /\ IdleCount
    /\ IdleMeasurement
    /\ wfpPc = "create"
    /\ wfpStopCh = FALSE
    /\ desired \in 0..MaxPods
    /\ oldPods = << >>
    /\ podsStatus = ZeroStatus
    /\ scaling = "uninitialized"
    /\ wfpResult = << >>
    /\ storeStops = 0
    /\ polls = 0
    /\ convergedSeen = FALSE
    /\ wfpReports = {}
    /\ wfpDiff = << >>

\* a WaitForPods that lists the pods before it looks at the error
WfpCreateFailsAfterListing ==
    /\ wfpPc = "create"
    /\ wfpResult' = [err |-> "creation"]
    /\ wfpPc' = "returned"
    /\ polls' = polls + 1
    /\ UNCHANGED << wfpStopCh, desired, oldPods, podsStatus, scaling,
                    storeStops, convergedSeen, wfpReports, wfpDiff >>
    /\ UNCHANGED nonWFP

\* wait_for_pods.go 48-51: NewPodStore fails
WfpCreateFails ==
    /\ wfpPc = "create"
    /\ wfpResult' = [err |-> "creation"]
    /\ wfpPc' = "returned"
    /\ UNCHANGED << wfpStopCh, desired, oldPods, podsStatus, scaling,
                    storeStops, polls, convergedSeen, wfpReports, wfpDiff >>
    /\ UNCHANGED nonWFP

\* wait_for_pods.go 48-65: the store is created, the first snapshot listed
WfpCreate ==
    /\ wfpPc = "create"
    /\ \E snap \in Snapshots :
         /\ oldPods' = snap
         /\ scaling' = ScalingOf(Cardinality(PodsOf(snap)), desired)
    /\ wfpPc' = "loop"
    /\ UNCHANGED << wfpStopCh, desired, podsStatus, wfpResult, storeStops,
                    polls, convergedSeen, wfpReports, wfpDiff >>
    /\ UNCHANGED nonWFP

\* a return on the stop signal that leaves the pod store running
WfpStoppedLeavingStore ==
    /\ wfpPc = "loop"
    /\ wfpStopCh
    /\ wfpResult' = [err |-> "timeout", desired |-> desired,
                      running |-> TimeoutRunning(oldPods, podsStatus)]
    /\ wfpPc' = "returned"
    /\ UNCHANGED << wfpStopCh, desired, oldPods, podsStatus, scaling, polls,
                    storeStops, convergedSeen, wfpReports, wfpDiff >>
    /\ UNCHANGED nonWFP

\* wait_for_pods.go 69-72, 52: the select takes stopCh
WfpStopped ==
    /\ wfpPc = "loop"
    /\ wfpStopCh
    /\ wfpResult' = [err |-> "timeout", desired |-> desired,
                      running |-> TimeoutRunning(oldPods, podsStatus)]
    /\ storeStops' = storeStops + 1
    /\ wfpPc' = "returned"
    /\ UNCHANGED << wfpStopCh, desired, oldPods, podsStatus, scaling, polls,
                    convergedSeen, wfpReports, wfpDiff >>
    /\ UNCHANGED nonWFP

\* a loop that keeps the snapshot it listed first
KeepsFirstSnapshot(old, pods) == old

\* wait_for_pods.go 94: oldPods = pods: the snapshot the next poll is diffed
\* against is the one this poll listed
Remembered(old, pods) == pods

\* wait_for_pods.go 73-94, 52: the select takes the timer: one poll
WfpPoll ==
    /\ wfpPc = "loop"
    /\ polls < MaxPolls
    /\ polls' = polls + 1
    /\ \E pods \in Snapshots :
         LET status == ComputePodsStartupStatus(pods, desired)
             now    == /\ status.Running = desired
                       /\ status.Running + status.Inactive
                              = Cardinality(PodsOf(pods))
             deleted == DeletedPods(oldPods, pods)
             added  == AddedPods(oldPods, pods)
         IN  /\ podsStatus' = status
             /\ wfpDiff' = [deleted |-> deleted, added |-> added]
             /\ wfpReports' = PollReports(scaling, deleted, added)
             /\ convergedSeen' = (convergedSeen \/ now)
             /\ IF Converged(pods, status, desired)
                THEN /\ wfpResult' = [err |-> "nil"]
                     /\ storeStops' = storeStops + 1
                     /\ wfpPc' = "returned"
                     /\ oldPods' = oldPods
                ELSE /\ oldPods' = Remembered(oldPods, pods)
                     /\ UNCHANGED << wfpResult, storeStops, wfpPc >>
    /\ UNCHANGED << wfpStopCh, desired, scaling >>
    /\ UNCHANGED nonWFP

\* the owner of the stop channel closes it
WfpCloseStop ==
    /\ wfpPc # "idle"
    /\ ~wfpStopCh
    /\ wfpStopCh' = TRUE
    /\ UNCHANGED << wfpPc, desired, oldPods, podsStatus, scaling, wfpResult,
                    storeStops, polls, convergedSeen, wfpReports, wfpDiff >>
    /\ UNCHANGED nonWFP

WaitNext ==
    \/ WfpCreateFails
    \/ WfpCreate
    \/ WfpStopped
    \/ WfpPoll
    \/ WfpCloseStop

WaitSpec == WaitInit /\ [][WaitNext]_vars

(***************************************************************************)
(* The measurements: one instance, created by its factory, on which the    *)
(* test executor calls Execute and Dispose one call after the other while  *)
(* the goroutines the instance launched run on their own.                  *)
(***************************************************************************)
MeasurementKinds ==
    {"schedulingThroughput", "resourceUsage", "probes", "metricsForE2E",
     "apiResponsiveness"}

\* what a call returned: whether the summary slice holds a summary, and the
\* error: nil, a MetricViolationError, or any other error
Returned(op, summary, err) == [op |-> op, summary |-> summary, err |-> err]

MeasurementInit ==
    /\ IdleLoops
    /\ IdleFramework
    /\ IdleNK
    /\ IdleCount
    /\ IdleWFP
    /\ mKind \in MeasurementKinds
    /\ NoCallsYet
    /\ stIsRunning = FALSE
    /\ stStopCh = NoChan
    /\ stChans = 0
    /\ stClosed = {}
    /\ stSamplers = << >>
    /\ stSeries = << >>
    /\ stSummary = << >>
    /\ ruGatherer = NoGatherer
    /\ ruGatherers = << >>
    /\ prFramework = FALSE
    /\ prStartTime = FALSE
    /\ prNamespace = FALSE
    /\ prSkip \in IF mKind = "probes" THEN BOOLEAN ELSE {FALSE}
    /\ IdleApi
    /\ IdleVerify

\* the executor makes its next call on the instance: the previous call has
\* returned
CallBegins(kind, op) ==
    /\ mKind = kind
    /\ mCalls < MaxCalls
    /\ mLast.op # "gathering"
    /\ apiPc = "idle"
    /\ mCalls' = mCalls + 1
    /\ mOps' = Append(mOps, op)

\* Execute was called with action start
StartInvoked == \E i \in DOMAIN mOps : mOps[i] = "start"

\* a call that starts nothing
NoStart == UNCHANGED << mStarted, mEverStarted >>

\* a start that went through
StartDone == mStarted' = TRUE /\ mEverStarted' = TRUE

(***************************************************************************)
(* schedulingThroughputMeasurement.                                        *)
(***************************************************************************)
\* part_000 105-106: the select can take the stop case
SamplerCanStop(sampler, closed) == sampler.ch \in closed

\* a stop that closes the channel without looking at isRunning
StopClosesAlways == TRUE

\* part_000 149: the test of stop
StopCloses == stIsRunning

\* part_000 148-153: stop, as part of gather and of Dispose. Closing the nil
\* channel or a closed channel panics.
Stop ==
    IF StopCloses
    THEN /\ stClosed' = stClosed \cup {stStopCh}
         /\ stIsRunning' = FALSE
         /\ mExt' = IF stStopCh = NoChan \/ stStopCh \in stClosed
                    THEN {"panic"} ELSE {"close"}
    ELSE /\ UNCHANGED << stClosed, stIsRunning >>
         /\ mExt' = {}

\* part_000 57-61, 77-78; resource_usage.go 57-61, 136-137; probes.go
\* 109-112, 122-123: the action parameter is missing or names no action
ExecuteBadAction ==
    /\ \E kind \in {"schedulingThroughput", "resourceUsage", "probes"} :
          CallBegins(kind, "unknown")
    /\ ~prSkip
    /\ mLast' = Returned("unknown", FALSE, "error")
    /\ mExt' = {}
    /\ NoStart
    /\ UNCHANGED << mKind, stVars, ruVars, prVars, apiVars >>
    /\ UNCHANGED nonMeasurement

\* part_000 64-67: start on a running measurement
StStartWhenRunning == Returned("start", FALSE, "nil")

\* part_000 63-74, 92-118: Execute with action start
StExecuteStart ==
    /\ CallBegins("schedulingThroughput", "start")
    /\ mExt' = {}
    /\ IF stIsRunning
       THEN /\ mLast' = StStartWhenRunning
            /\ NoStart
            /\ UNCHANGED stVars
       ELSE \E outcome \in {"parseError", "storeError", "ok"} :
              CASE outcome = "parseError" ->
                     /\ mLast' = Returned("start", FALSE, "error")
                     /\ NoStart
                     /\ UNCHANGED stVars
                [] outcome = "storeError" ->
                     /\ stChans' = stChans + 1
                     /\ stStopCh' = stChans + 1
                     /\ mLast' = Returned("start", FALSE, "error")
                     /\ NoStart
                     /\ UNCHANGED << stIsRunning, stClosed, stSamplers,
                                     stSeries, stSummary >>
                [] outcome = "ok" ->
                     /\ stChans' = stChans + 1
                     /\ stStopCh' = stChans + 1
                     /\ stIsRunning' = TRUE
                     /\ stSamplers' = Append(stSamplers,
                            [pc |-> "loop", ch |-> stChans + 1,
                             storeStopped |-> FALSE,
                             lastScheduledCount |-> 0, scheduled |-> 0,
                             seen |-> 0])
                     /\ mLast' = Returned("start", FALSE, "nil")
                     /\ StartDone
                     /\ UNCHANGED << stClosed, stSeries, stSummary >>
    /\ UNCHANGED << mKind, ruVars, prVars, apiVars >>
    /\ UNCHANGED nonMeasurement

\* part_000 75-76, 120-126: Execute with action gather, up to the stop
StExecuteGather ==
    /\ CallBegins("schedulingThroughput", "gather")
    /\ IF ~stIsRunning
       THEN /\ mLast' = Returned("gather", FALSE, "error")
            /\ mExt' = {}
            /\ UNCHANGED << stClosed, stIsRunning >>
       ELSE /\ Stop
            /\ mLast' = Returned("gathering", FALSE, "nil")
    /\ mStarted' = FALSE
    /\ UNCHANGED << mKind, mEverStarted, stStopCh, stChans,
                    stSamplers, stSeries, stSummary, ruVars, prVars,
                    apiVars >>
    /\ UNCHANGED nonMeasurement

\* the sorted slice with one more sample put behind the samples that are
\* not greater
InsertSorted(sorted, sample) ==
    LET k == Cardinality({ i \in DOMAIN sorted :
                             sorted[i].delta <= sample.delta })
    IN  SubSeq(sorted, 1, k) \o << sample >> \o SubSeq(sorted, k + 1, Len(sorted))

\* part_000 130: sort.Float64s on the first n samples of the series
RECURSIVE SortedFirst(_, _)
SortedFirst(series, n) ==
    IF n = 0 THEN << >>
    ELSE InsertSorted(SortedFirst(series, n - 1), series[n])

\* part_000 130: sort.Float64s(s.schedulingThroughputs)
SortFloat64s(series) == SortedFirst(series, Len(series))

\* part_000 131-134: the sum of the numerators of the first n samples
RECURSIVE SumFirst(_, _)
SumFirst(series, n) ==
    IF n = 0 THEN 0 ELSE SumFirst(series, n - 1) + series[n].delta

\* an index that truncates the quotient
PercentileIndexTruncated(length, p) == TruncFloat(DivFloat(length * p, 100)) - 1

\* part_000 136-138: int(math.Ceil(float64(length*p)/100)) - 1
PercentileIndex(length, p) == CeilFloat(DivFloat(length * p, 100)) - 1

\* part_000 136-138: the element the index expression reads; the read
\* panics when the index is outside the slice
ElementAt(sorted, index) ==
    IF index \in 0..(Len(sorted) - 1)
    THEN [panic |-> FALSE, delta |-> sorted[index + 1].delta]
    ELSE [panic |-> TRUE, delta |-> 0]

\* part_000 128: &schedulingThroughput{}
ZeroSummary ==
    [Average |-> [sum |-> 0, length |-> 0],
     Perc50 |-> [panic |-> FALSE, delta |-> 0],
     Perc90 |-> [panic |-> FALSE, delta |-> 0],
     Perc99 |-> [panic |-> FALSE, delta |-> 0],
     samples |-> << >>]

\* part_000 128-139: throughputSummary for the sorted series. Average is
\* the sum of the numerators over the length, before any rounding;
\* samples is a ghost: the samples the summary was computed from
ThroughputSummary(sorted) ==
    IF Len(sorted) > 0
    THEN [Average |-> [sum |-> SumFirst(sorted, Len(sorted)),
                       length |-> Len(sorted)],
          Perc50 |-> ElementAt(sorted, PercentileIndex(Len(sorted), 50)),
          Perc90 |-> ElementAt(sorted, PercentileIndex(Len(sorted), 90)),
          Perc99 |-> ElementAt(sorted, PercentileIndex(Len(sorted), 99)),
          samples |-> sorted]
    ELSE ZeroSummary

\* part_000 128-145: gather sorts the series in place, computes the
\* summary and returns
StGatherSummarize ==
    /\ mKind = "schedulingThroughput"
    /\ mLast.op = "gathering"
    /\ stSeries' = SortFloat64s(stSeries)
    /\ \E jsonOk \in BOOLEAN :
          IF jsonOk
          THEN /\ mLast' = Returned("gather", TRUE, "nil")
               /\ stSummary' = << ThroughputSummary(stSeries') >>
          ELSE /\ mLast' = Returned("gather", FALSE, "error")
               /\ stSummary' = stSummary
    /\ UNCHANGED << mKind, mCalls, mExt, mStarted, mEverStarted, mOps,
                    stIsRunning, stStopCh, stChans, stClosed, stSamplers,
                    ruVars, prVars, apiVars >>
    /\ UNCHANGED nonMeasurement

\* part_000 83-85: Dispose
StDispose ==
    /\ CallBegins("schedulingThroughput", "dispose")
    /\ Stop
    /\ mLast' = Returned("dispose", FALSE, "nil")
    /\ mStarted' = FALSE
    /\ UNCHANGED << mKind, mEverStarted, stStopCh, stChans,
                    stSamplers, stSeries, stSummary, ruVars, prVars,
                    apiVars >>
    /\ UNCHANGED nonMeasurement

\* the channels a sampler can find in s.stopCh when it enters the select:
\* the read is not ordered with the assignment a later start makes, so it
\* yields the channel the sampler saw before, the current one, or one
\* assigned in between
ReadStopCh(sampler) == sampler.ch .. stStopCh

\* part_000 103-105: the sampler enters the select
SamplerSelect(g) ==
    /\ mKind = "schedulingThroughput"
    /\ g \in DOMAIN stSamplers
    /\ stSamplers[g].pc = "loop"
    /\ \E c \in ReadStopCh(stSamplers[g]) :
          stSamplers' = [stSamplers EXCEPT ![g].pc = "select", ![g].ch = c]
    /\ UNCHANGED << callVars, stIsRunning, stStopCh, stChans, stClosed,
                    stSeries, stSummary, ruVars, prVars, apiVars >>
    /\ UNCHANGED nonMeasurement

\* part_000 105-106, 101: the select takes the stop case; the deferred
\* ps.Stop() runs
SamplerStopped(g) ==
    /\ mKind = "schedulingThroughput"
    /\ g \in DOMAIN stSamplers
    /\ stSamplers[g].pc = "select"
    /\ SamplerCanStop(stSamplers[g], stClosed)
    /\ stSamplers' = [stSamplers EXCEPT ![g].pc = "exited",
                                        ![g].storeStopped = TRUE]
    /\ UNCHANGED << callVars, stIsRunning, stStopCh, stChans, stClosed,
                    stSeries, stSummary, ruVars, prVars, apiVars >>
    /\ UNCHANGED nonMeasurement

\* the scheduled counts ComputePodsStartupStatus can report
ScheduledCounts == 0..MaxScheduled

\* the one count an idle cluster reports: no pod gets scheduled
IdleCounts == { 0 }

\* part_000 107-111: the timer fires before the channel the select waits
\* on is closed; the sampler lists the pods, whose scheduled count is one of
\* counts, computes the throughput and begins the append by reading the
\* slice
SamplerTick(g, counts) ==
    /\ mKind = "schedulingThroughput"
    /\ g \in DOMAIN stSamplers
    /\ stSamplers[g].pc = "select"
    /\ ~SamplerCanStop(stSamplers[g], stClosed)
    /\ Len(stSeries) + Cardinality({ h \in DOMAIN stSamplers :
                                       stSamplers[h].pc = "append" })
          < MaxSamples
    /\ \E count \in counts :
          stSamplers' = [stSamplers EXCEPT ![g].pc = "append",
                                          ![g].scheduled = count,
                                          ![g].seen = Len(stSeries)]
    /\ UNCHANGED << callVars, stIsRunning, stStopCh, stChans, stClosed,
                    stSeries, stSummary, ruVars, prVars, apiVars >>
    /\ UNCHANGED nonMeasurement

\* part_000 110: the numerator of the throughput
Throughput(sampler) == sampler.scheduled - sampler.lastScheduledCount

\* part_000 111: the slice the append stores: the sample behind the
\* elements the append found when it read the slice. The append is not
\* synchronised with the appends of other samplers: an element appended in
\* between is overwritten.
Appended(series, sampler, g) ==
    Append(SubSeq(series, 1, sampler.seen),
           [by |-> g, delta |-> Throughput(sampler)])

\* part_000 111-113: the sample is stored and the count kept for the next
\* tick
SamplerAppend(g) ==
    /\ mKind = "schedulingThroughput"
    /\ g \in DOMAIN stSamplers
    /\ stSamplers[g].pc = "append"
    /\ stSeries' = Appended(stSeries, stSamplers[g], g)
    /\ stSamplers' = [stSamplers EXCEPT
                         ![g].pc = "loop", ![g].seen = 0,
                         ![g].lastScheduledCount = stSamplers[g].scheduled]
    /\ UNCHANGED << callVars, stIsRunning, stStopCh, stChans, stClosed,
                    stSummary, ruVars, prVars, apiVars >>
    /\ UNCHANGED nonMeasurement

(***************************************************************************)
(* resourceUsageMetricMeasurement.                                         *)
(***************************************************************************)
\* StopAndSummarize and Dispose of a gatherer end its gathering goroutine
StopGatherer(gs, g) == [gs EXCEPT ![g] = "stopped"]

\* resource_usage.go 134: what gather returns once the summary is printed:
\* the summary and the verdict of verifySummary
RuGatherReturns(violated) ==
    Returned("gather", TRUE, IF violated THEN "violation" ELSE "nil")

\* resource_usage.go 64-118: Execute with action start
RuExecuteStart ==
    /\ CallBegins("resourceUsage", "start")
    /\ mExt' = {}
    /\ \E outcome \in {"paramError", "gathererError", "ok"} :
         CASE outcome = "paramError" ->
                /\ mLast' = Returned("start", FALSE, "error")
                /\ NoStart
                /\ UNCHANGED ruVars
           [] outcome = "gathererError" ->
                /\ ruGatherer' = NoGatherer
                /\ mLast' = Returned("start", FALSE, "error")
                /\ NoStart
                /\ UNCHANGED ruGatherers
           [] outcome = "ok" ->
                /\ ruGatherers' = Append(ruGatherers, "gathering")
                /\ ruGatherer' = Len(ruGatherers) + 1
                /\ mLast' = Returned("start", FALSE, "nil")
                /\ StartDone
    /\ UNCHANGED << mKind, stVars, prVars, apiVars >>
    /\ UNCHANGED nonMeasurement

\* resource_usage.go 119-134: Execute with action gather
RuExecuteGather ==
    /\ CallBegins("resourceUsage", "gather")
    /\ mExt' = {}
    /\ IF ruGatherer = NoGatherer
       THEN /\ mLast' = Returned("gather", FALSE, "nil")
            /\ UNCHANGED ruVars
       ELSE /\ ruGatherers' = StopGatherer(ruGatherers, ruGatherer)
            /\ UNCHANGED ruGatherer
            /\ \E outcome \in {"summarizeError", "jsonError", "ok"} :
                 IF outcome = "ok"
                 THEN \E violated \in BOOLEAN :
                         mLast' = RuGatherReturns(violated)
                 ELSE mLast' = Returned("gather", FALSE, "error")
    /\ mStarted' = FALSE
    /\ UNCHANGED << mKind, mEverStarted, stVars, prVars,
                    apiVars >>
    /\ UNCHANGED nonMeasurement

\* resource_usage.go 142-146: Dispose
RuDispose ==
    /\ CallBegins("resourceUsage", "dispose")
    /\ IF ruGatherer # NoGatherer
       THEN /\ ruGatherers' = StopGatherer(ruGatherers, ruGatherer)
            /\ mExt' = {"gathererDispose"}
       ELSE /\ UNCHANGED ruGatherers
            /\ mExt' = {}
    /\ mLast' = Returned("dispose", FALSE, "nil")
    /\ mStarted' = FALSE
    /\ UNCHANGED << mKind, mEverStarted, ruGatherer, stVars,
                    prVars, apiVars >>
    /\ UNCHANGED nonMeasurement

(***************************************************************************)
(* probesMeasurement.                                                      *)
(***************************************************************************)
\* probes.go 117-121: what Execute returns for what gather returned
PrGatherReturns(summary, err) ==
    IF err # "nil" /\ err # "violation"
    THEN Returned("gather", FALSE, err)
    ELSE Returned("gather", TRUE, err)

\* probes.go 100-107: kubemark, or Prometheus disabled: the measurement is
\* skipped before the action parameter is read, so whatever the action is,
\* a missing or unknown one too
PrExecuteSkipped ==
    /\ prSkip
    /\ \E op \in {"start", "gather", "unknown"} :
         /\ CallBegins("probes", op)
         /\ mLast' = Returned(op, FALSE, "nil")
    /\ mExt' = {}
    /\ NoStart
    /\ UNCHANGED << mKind, mEverStarted, stVars, ruVars, prVars, apiVars >>
    /\ UNCHANGED nonMeasurement

\* probes.go 114-115, 159-179, 148-157: Execute with action start
PrExecuteStart ==
    /\ ~prSkip
    /\ CallBegins("probes", "start")
    /\ IF prStartTime
       THEN /\ mLast' = Returned("start", FALSE, "error")
            /\ mExt' = {}
            /\ NoStart
            /\ UNCHANGED prVars
       ELSE \E outcome \in {"paramError", "namespaceError", "objectsError",
                            "readyError", "ok"} :
              CASE outcome = "paramError" ->
                     /\ mLast' = Returned("start", FALSE, "error")
                     /\ mExt' = {}
                     /\ NoStart
                     /\ UNCHANGED prVars
                [] outcome = "namespaceError" ->
                     /\ prFramework' = TRUE
                     /\ mLast' = Returned("start", FALSE, "error")
                     /\ mExt' = {"createNamespace"}
                     /\ NoStart
                     /\ UNCHANGED << prStartTime, prNamespace >>
                [] outcome \in {"objectsError", "readyError"} ->
                     /\ prFramework' = TRUE
                     /\ prNamespace' = TRUE
                     /\ mLast' = Returned("start", FALSE, "error")
                     /\ mExt' = {"createNamespace", "createObjects"}
                     /\ NoStart
                     /\ UNCHANGED prStartTime
                [] outcome = "ok" ->
                     /\ prFramework' = TRUE
                     /\ prNamespace' = TRUE
                     /\ prStartTime' = TRUE
                     /\ mLast' = Returned("start", FALSE, "nil")
                     /\ mExt' = {"createNamespace", "createObjects"}
                     /\ StartDone
    /\ UNCHANGED << mKind, prSkip, stVars, ruVars, apiVars >>
    /\ UNCHANGED nonMeasurement

\* probes.go 116-121, 181-220: Execute with action gather
PrExecuteGather ==
    /\ ~prSkip
    /\ CallBegins("probes", "gather")
    /\ IF ~prStartTime
       THEN /\ mLast' = PrGatherReturns(FALSE, "error")
            /\ mExt' = {}
       ELSE \E outcome \in {"paramError", "queryError", "latencyError",
                            "summaryError", "ok"} :
              CASE outcome = "paramError" ->
                     /\ mLast' = PrGatherReturns(FALSE, "error")
                     /\ mExt' = {}
                [] outcome \in {"queryError", "latencyError",
                                "summaryError"} ->
                     /\ mLast' = PrGatherReturns(FALSE, "error")
                     /\ mExt' = {"query"}
                [] outcome = "ok" ->
                     /\ \E violated \in BOOLEAN :
                          mLast' = PrGatherReturns(TRUE,
                              IF violated THEN "violation" ELSE "nil")
                     /\ mExt' = {"query"}
    /\ mStarted' = FALSE
    /\ UNCHANGED << mKind, mEverStarted, stVars, ruVars,
                    prVars, apiVars >>
    /\ UNCHANGED nonMeasurement

\* Dispose that looks at the start time instead of the framework
PrDisposeOnlyWhenStarted ==
    /\ CallBegins("probes", "dispose")
    /\ IF ~prStartTime
       THEN /\ mExt' = {}
            /\ UNCHANGED prNamespace
       ELSE /\ mExt' = {"deleteNamespace", "waitForDeleteNamespace"}
            /\ prNamespace' \in {FALSE, prNamespace}
    /\ mLast' = Returned("dispose", FALSE, "nil")
    /\ mStarted' = FALSE
    /\ UNCHANGED << mKind, mEverStarted, prFramework, prStartTime, prSkip,
                    stVars, ruVars, apiVars >>
    /\ UNCHANGED nonMeasurement

\* probes.go 128-141: Dispose
PrDispose ==
    /\ CallBegins("probes", "dispose")
    /\ IF ~prFramework
       THEN /\ mExt' = {}
            /\ UNCHANGED prNamespace
       ELSE /\ mExt' = {"deleteNamespace", "waitForDeleteNamespace"}
            /\ prNamespace' \in {FALSE, prNamespace}
    /\ mLast' = Returned("dispose", FALSE, "nil")
    /\ mStarted' = FALSE
    /\ UNCHANGED << mKind, mEverStarted, prFramework, prStartTime, prSkip,
                    stVars, ruVars, apiVars >>
    /\ UNCHANGED nonMeasurement

(***************************************************************************)
(* metricsForE2EMeasurement.                                               *)
(***************************************************************************)
\* metrics_for_e2e.go 117-118: what Execute returns once the metrics are
\* printed: the summary and the error of Grab
E2eReturns(grabErr) == Returned("execute", TRUE, grabErr)

\* metrics_for_e2e.go 84-119: Execute
E2eExecute ==
    /\ CallBegins("metricsForE2E", "execute")
    /\ \E outcome \in {"paramError", "grabberError", "grabbed"} :
         IF outcome = "grabbed"
         THEN /\ mExt' = {"grab"}
              /\ \E grabErr \in {"nil", "error"}, jsonOk \in BOOLEAN :
                    mLast' = IF jsonOk THEN E2eReturns(grabErr)
                             ELSE Returned("execute", FALSE, "error")
         ELSE /\ mExt' = {}
              /\ mLast' = Returned("execute", FALSE, "error")
    /\ NoStart
    /\ UNCHANGED << mKind, stVars, ruVars, prVars, apiVars >>
    /\ UNCHANGED nonMeasurement

\* metrics_for_e2e.go 122: Dispose
E2eDispose ==
    /\ CallBegins("metricsForE2E", "dispose")
    /\ mLast' = Returned("dispose", FALSE, "nil")
    /\ mExt' = {}
    /\ NoStart
    /\ UNCHANGED << mKind, stVars, ruVars, prVars, apiVars >>
    /\ UNCHANGED nonMeasurement

(***************************************************************************)
(* apiResponsivenessGatherer.Gather.  The gatherer is an empty struct: a   *)
(* call of Gather depends on nothing an earlier call left behind, so one   *)
(* call is followed from its entry to its return.                          *)
(***************************************************************************)
\* the thresholds getSLOThreshold chooses from, in seconds
resourceThreshold == 1

namespaceThreshold == 5

clusterThreshold == 30

Verbs == {"GET", "LIST", "PUT"}

Scopes == {"cluster", "namespace", "resource", ""}

\* an apiCall: its verb, its scope and its 99th percentile latency in
\* seconds; resource and subresource tell calls of one kind apart
ApiCall(verb, scope, latency) ==
    [verb |-> verb, scope |-> scope, latency |-> latency]

\* few calls of every verb and scope
WideKinds ==
    { ApiCall(v, s, l) : v \in Verbs, s \in Scopes, l \in {0, 40} }

\* many calls of few kinds: for each threshold one call that keeps it and
\* one that breaches it, with latencies that tie across thresholds
LongKinds ==
    << ApiCall("GET", "namespace", 0),  ApiCall("GET", "namespace", 2),
       ApiCall("LIST", "namespace", 2), ApiCall("LIST", "namespace", 10),
       ApiCall("LIST", "cluster", 10),  ApiCall("LIST", "cluster", 40) >>

\* the slices gatherAPICalls can return
WideSlices(maxCalls) == UNION { [1..n -> WideKinds] : n \in 0..maxCalls }

\* the slices of n calls drawn from the kinds from..Len(LongKinds), each
\* selection of kinds listed once
RECURSIVE LongSlicesOf(_, _)
LongSlicesOf(n, from) ==
    IF n = 0 THEN { << >> }
    ELSE UNION { { << LongKinds[k] >> \o t : t \in LongSlicesOf(n - 1, k) } :
                 k \in from..Len(LongKinds) }

LongSlices(maxCalls) == UNION { LongSlicesOf(n, 1) : n \in 0..maxCalls }

\* the slice without its i-th element
RemoveAt(s, i) == SubSeq(s, 1, i-1) \o SubSeq(s, i+1, Len(s))

\* sort.Sort(sort.Reverse(metrics)): the arrangements of the slice by
\* descending latency; calls of equal latency come in any order
RECURSIVE DescOrders(_)
DescOrders(s) ==
    IF s = << >> THEN { << >> }
    ELSE LET maxima == { i \in 1..Len(s) :
                           \A j \in 1..Len(s) : s[j].latency <= s[i].latency }
         IN  UNION { { << s[i] >> \o t : t \in DescOrders(RemoveAt(s, i)) } :
                     i \in maxima }

\* every value metrics.ApiCalls can have when the loop begins
SortedSlices(slices) == UNION { DescOrders(s) : s \in slices }

\* a threshold selection that looks at the scope first
getSLOThresholdScopeFirst(verb, scope) ==
    IF scope = "cluster" THEN clusterThreshold
    ELSE IF verb # "LIST" THEN resourceThreshold
    ELSE namespaceThreshold

\* api_responsiveness_prometheus.go 242-250
getSLOThreshold(verb, scope) ==
    IF verb # "LIST" THEN resourceThreshold
    ELSE IF scope = "cluster" THEN clusterThreshold
    ELSE namespaceThreshold

\* apiCall.Latency.VerifyThreshold(threshold) returns an error
VerifyThresholdFails(call, threshold) == call.latency > threshold

\* a loop that logs only while top is positive
ShouldLogTopOnly(t, isBad) == t > 0

\* api_responsiveness_prometheus.go 92: the test that guards the Infof
ShouldLog(t, isBad) == t > 0 \/ isBad

\* a Gather that never reports a violation
GatherReturnsNoViolation(bad) == Returned("gather", TRUE, "nil")

\* a Gather that returns the violation in place of the summary
GatherReturnsViolationOnly(bad) ==
    IF Len(bad) > 0 THEN Returned("gather", FALSE, "violation")
    ELSE Returned("gather", TRUE, "nil")

\* api_responsiveness_prometheus.go 112-116
GatherReturns(bad) ==
    IF Len(bad) > 0 THEN Returned("gather", TRUE, "violation")
    ELSE Returned("gather", TRUE, "nil")

\* api_responsiveness_prometheus.go 75-84: the calls are gathered, sorted,
\* and the loop is set up; or gathering fails
ApiGatherCalls ==
    /\ mKind = "apiResponsiveness"
    /\ mCalls = 0
    /\ apiPc = "idle"
    /\ mCalls' = 1
    /\ mOps' = Append(mOps, "gather")
    /\ mExt' = {"query"}
    /\ \/ /\ mLast' = Returned("gather", FALSE, "error")
          /\ UNCHANGED apiVars
       \/ /\ metrics' \in SortedSlices(WideSlices(MaxWideCalls)
                                      \cup LongSlices(MaxApiCalls))
          /\ apiPc' = "loop"
          /\ apiIdx' = 1
          /\ top' = topToPrint
          /\ badMetrics' = << >>
          /\ apiLogged' = << >>
          /\ mLast' = Returned("gathering", FALSE, "nil")
    /\ NoStart
    /\ UNCHANGED << mKind, stVars, ruVars, prVars >>
    /\ UNCHANGED nonMeasurement

\* api_responsiveness_prometheus.go 85-100: one iteration of the loop
ApiLoopStep ==
    /\ apiPc = "loop"
    /\ apiIdx <= Len(metrics)
    /\ LET apiCall      == metrics[apiIdx]
           sloThreshold == getSLOThreshold(apiCall.verb, apiCall.scope)
           isBad        == VerifyThresholdFails(apiCall, sloThreshold)
       IN  /\ badMetrics' = IF isBad THEN Append(badMetrics, apiIdx)
                                     ELSE badMetrics
           /\ IF ShouldLog(top, isBad)
              THEN /\ top' = top - 1
                   /\ apiLogged' = Append(apiLogged,
                          [call |-> apiIdx, warning |-> isBad,
                           threshold |-> sloThreshold])
              ELSE UNCHANGED << top, apiLogged >>
    /\ apiIdx' = apiIdx + 1
    /\ UNCHANGED << apiPc, metrics, callVars, stVars, ruVars, prVars >>
    /\ UNCHANGED nonMeasurement

\* api_responsiveness_prometheus.go 102-116: the summary is built and
\* Gather returns
ApiReturn ==
    /\ apiPc = "loop"
    /\ apiIdx > Len(metrics)
    /\ apiPc' = "returned"
    /\ \E outcome \in {"jsonError", "paramError", "ok"} :
          mLast' = IF outcome = "ok" THEN GatherReturns(badMetrics)
                   ELSE Returned("gather", FALSE, "error")
    /\ UNCHANGED << mKind, mCalls, mExt, mStarted, mEverStarted, mOps,
                    metrics, apiIdx, top, badMetrics, apiLogged, stVars,
                    ruVars, prVars >>
    /\ UNCHANGED nonMeasurement

(***************************************************************************)
(* The calls on one measurement instance and the steps of what it runs.    *)
(***************************************************************************)
MeasurementNext ==
    \/ ExecuteBadAction
    \/ StExecuteStart
    \/ StExecuteGather
    \/ StGatherSummarize
    \/ StDispose
    \/ \E g \in 1..MaxCalls : SamplerSelect(g)
    \/ \E g \in 1..MaxCalls : SamplerStopped(g)
    \/ \E g \in 1..MaxCalls : SamplerTick(g, IdleCounts)
    \/ \E g \in 1..MaxCalls : SamplerAppend(g)
    \/ RuExecuteStart
    \/ RuExecuteGather
    \/ RuDispose
    \/ PrExecuteSkipped
    \/ PrExecuteStart
    \/ PrExecuteGather
    \/ PrDispose
    \/ E2eExecute
    \/ E2eDispose
    \/ ApiGatherCalls
    \/ ApiLoopStep
    \/ ApiReturn

\* the calls on one instance of any kind, on an idle cluster
MeasurementSpec == MeasurementInit /\ [][MeasurementNext]_vars

\* the goroutines are scheduled: a sampler that can enter its select does,
\* and one whose stop channel is closed leaves
MeasurementFairSpec ==
    /\ MeasurementSpec
    /\ \A g \in 1..MaxCalls :
          /\ WF_vars(SamplerSelect(g))
          /\ WF_vars(SamplerStopped(g))
          /\ WF_vars(SamplerAppend(g))

(***************************************************************************)
(* resourceUsageMetricMeasurement: the resource constraints that start     *)
(* reads and verifySummary, on their own.  A string is the sequence of     *)
(* its pieces, the separator "/" being a piece.                            *)
(***************************************************************************)
\* the container names a constraints file can have entries for
FileContainers == { << "apiserver" >>, << "etcd" >> }

\* the names of the containers of a summary: pod "/" container, as the
\* gatherer composes them
SummaryNames ==
    << << "master", "/", "apiserver" >>, << "master", "/", "etcd" >> >>

\* strings.Split(s, sep): the pieces of s between the separators
Split(s, sep) ==
    LET cuts == {0} \cup { i \in DOMAIN s : s[i] = sep } \cup {Len(s) + 1}
        cut(k) == CHOOSE c \in cuts : Cardinality({ d \in cuts : d < c }) = k
    IN  [k \in 1..(Cardinality(cuts) - 1) |->
            SubSeq(s, cut(k - 1) + 1, cut(k) - 1)]

\* a ceiling that is a number of the file
Finite(v) == [max |-> FALSE, v |-> v]

\* resource_usage.go 89: math.MaxFloat64
MaxFloat64 == [max |-> TRUE, v |-> 0]

\* resource_usage.go 92: math.MaxUint64
MaxUint64 == [max |-> TRUE, v |-> 0]

\* a reading of the file that leaves the CPU ceiling as decoded
CPUConstraintAsDecoded(raw) == Finite(raw)

\* resource_usage.go 88-90: the CPU ceiling of an entry after the loop
CPUConstraintOf(raw) == IF raw = 0 THEN MaxFloat64 ELSE Finite(raw)

\* resource_usage.go 91-93: the memory ceiling of an entry after the loop
MemoryConstraintOf(raw) == IF raw = 0 THEN MaxUint64 ELSE Finite(raw)

\* what TemplateInto can decode: per container of the file its two
\* ceilings, 0 where the file names none
ConstraintFiles ==
    UNION { [D -> [CPUConstraint : 0..MaxCeiling,
                   MemoryConstraint : 0..MaxCeiling]] :
            D \in SUBSET FileContainers }

\* the 99th-percentile entries a summary can hold, in the order of
\* SummaryNames
Summaries ==
    LET entries(i) == { [Name |-> SummaryNames[i], Cpu |-> c, Mem |-> m] :
                          c \in 0..MaxUsage, m \in 0..MaxUsage }
    IN  {<< >>}
          \cup { << e >> : e \in entries(1) \cup entries(2) }
          \cup { << e, f >> : e \in entries(1), f \in entries(2) }

\* resource_usage.go 158, 168: usage > ceiling, for a usage that is a
\* finite number
Exceeds(usage, ceiling) == ~ceiling.max /\ usage > ceiling.v

\* a verification that reports the memory breach only when the CPU is
\* within its ceiling
MessagesOfFirstBreach(entry, constraints) ==
    LET containerName == Split(entry.Name, "/")[2]
    IN  IF containerName \notin DOMAIN constraints THEN << >>
        ELSE LET constraint == constraints[containerName]
             IN  IF Exceeds(entry.Cpu, constraint.CPUConstraint)
                 THEN << [Name |-> entry.Name, resource |-> "CPU",
                          usage |-> entry.Cpu,
                          ceiling |-> constraint.CPUConstraint] >>
                 ELSE IF Exceeds(entry.Mem, constraint.MemoryConstraint)
                 THEN << [Name |-> entry.Name, resource |-> "memory",
                          usage |-> entry.Mem,
                          ceiling |-> constraint.MemoryConstraint] >>
                 ELSE << >>

\* resource_usage.go 156-178: what one iteration of the loop appends to
\* violatedConstraints
MessagesOf(entry, constraints) ==
    LET containerName == Split(entry.Name, "/")[2]
    IN  IF containerName \notin DOMAIN constraints THEN << >>
        ELSE LET constraint == constraints[containerName]
             IN  (IF Exceeds(entry.Cpu, constraint.CPUConstraint)
                  THEN << [Name |-> entry.Name, resource |-> "CPU",
                           usage |-> entry.Cpu,
                           ceiling |-> constraint.CPUConstraint] >>
                  ELSE << >>)
                 \o
                 (IF Exceeds(entry.Mem, constraint.MemoryConstraint)
                  THEN << [Name |-> entry.Name, resource |-> "memory",
                           usage |-> entry.Mem,
                           ceiling |-> constraint.MemoryConstraint] >>
                  ELSE << >>)

\* resource_usage.go 154-179: violatedConstraints after the loop over the
\* first n entries of the summary
RECURSIVE ViolatedConstraints(_, _, _)
ViolatedConstraints(summary, constraints, n) ==
    IF n = 0 THEN << >>
    ELSE ViolatedConstraints(summary, constraints, n - 1)
            \o MessagesOf(summary[n], constraints)

\* resource_usage.go 153-187: verifySummary
verifySummary(summary, constraints) ==
    LET violated == ViolatedConstraints(summary, constraints, Len(summary))
    IN  IF Len(violated) > 0
        THEN [err |-> "violation", count |-> Len(violated),
              messages |-> violated]
        ELSE [err |-> "nil", count |-> 0, messages |-> << >>]

VerifyInit ==
    /\ IdleLoops
    /\ IdleFramework
    /\ IdleNK
    /\ IdleCount
    /\ IdleWFP
    /\ IdleCalls
    /\ rcPc = "created"
    /\ rcFile = << >>
    /\ resourceConstraints = << >>
    /\ rcSummary = << >>
    /\ rcResult = << >>

\* resource_usage.go 77-81: start with no resourceConstraints parameter
RcStartWithoutConstraints ==
    /\ rcPc = "created"
    /\ rcPc' = "started"
    /\ UNCHANGED << rcFile, resourceConstraints, rcSummary, rcResult >>
    /\ UNCHANGED nonVerify

\* resource_usage.go 77-95: start reads the constraints file into
\* e.resourceConstraints and replaces the ceilings that are 0
RcStartReadsConstraints ==
    /\ rcPc = "created"
    /\ \E file \in ConstraintFiles :
         /\ rcFile' = file
         /\ resourceConstraints' =
                [c \in DOMAIN file |->
                    [CPUConstraint |-> CPUConstraintOf(file[c].CPUConstraint),
                     MemoryConstraint |->
                         MemoryConstraintOf(file[c].MemoryConstraint)]]
    /\ rcPc' = "started"
    /\ UNCHANGED << rcSummary, rcResult >>
    /\ UNCHANGED nonVerify

\* resource_usage.go 134, 153-187: gather calls verifySummary
RcVerifySummary ==
    /\ rcPc = "started"
    /\ \E summary \in Summaries :
         /\ rcSummary' = summary
         /\ rcResult' = verifySummary(summary, resourceConstraints)
    /\ rcPc' = "verified"
    /\ UNCHANGED << rcFile, resourceConstraints >>
    /\ UNCHANGED nonVerify

VerifyNext ==
    \/ RcStartWithoutConstraints
    \/ RcStartReadsConstraints
    \/ RcVerifySummary

VerifySpec == VerifyInit /\ [][VerifyNext]_vars

(***************************************************************************)
(* The summary of gather as a function of the series: the instance is      *)
(* where gather has stopped the sampler, after a run that recorded the     *)
(* series.                                                                 *)
(***************************************************************************)
\* the series of a sampler that saw the scheduled count grow by 1..MaxSeries
\* per tick, and of one that saw it grow by 0 or 1
PercentileSeries ==
    UNION { [1..n -> { [by |-> 1, delta |-> d] : d \in 1..MaxSeries }] :
            n \in 0..MaxSeries }
      \cup
    UNION { [1..n -> { [by |-> 1, delta |-> d] : d \in 0..1 }] :
            n \in 0..MaxLongSeries }

PercentileInit ==
    /\ IdleLoops
    /\ IdleFramework
    /\ IdleNK
    /\ IdleCount
    /\ IdleWFP
    /\ IdleVerify
    /\ IdleApi
    /\ mKind = "schedulingThroughput"
    /\ mCalls = 2
    /\ mOps = << "start", "gather" >>
    /\ mLast = Returned("gathering", FALSE, "nil")
    /\ mExt = {"close"}
    /\ mStarted = FALSE
    /\ mEverStarted = TRUE
    /\ stIsRunning = FALSE
    /\ stStopCh = 1
    /\ stChans = 1
    /\ stClosed = {1}
    /\ stSeries \in PercentileSeries
    /\ stSamplers = << [pc |-> "exited", ch |-> 1, storeStopped |-> TRUE,
                        lastScheduledCount |-> SumFirst(stSeries, Len(stSeries)),
                        scheduled |-> SumFirst(stSeries, Len(stSeries)),
                        seen |-> IF stSeries = << >> THEN 0
                                 ELSE Len(stSeries) - 1] >>
    /\ stSummary = << >>
    /\ ruGatherer = NoGatherer
    /\ ruGatherers = << >>
    /\ prFramework = FALSE
    /\ prStartTime = FALSE
    /\ prNamespace = FALSE
    /\ prSkip = FALSE

PercentileNext == StGatherSummarize

PercentileSpec == PercentileInit /\ [][PercentileNext]_vars

(***************************************************************************)
(* The scheduling throughput measurement on a cluster that schedules pods: *)
(* the same calls and sampler steps, the scheduled count of a tick being   *)
(* any of ScheduledCounts.                                                 *)
(***************************************************************************)
ThroughputInit == MeasurementInit /\ mKind = "schedulingThroughput"

ThroughputNext ==
    \/ ExecuteBadAction
    \/ StExecuteStart
    \/ StExecuteGather
    \/ StGatherSummarize
    \/ StDispose
    \/ \E g \in 1..MaxCalls : SamplerSelect(g)
    \/ \E g \in 1..MaxCalls : SamplerStopped(g)
    \/ \E g \in 1..MaxCalls : SamplerTick(g, ScheduledCounts)
    \/ \E g \in 1..MaxCalls : SamplerAppend(g)

ThroughputSpec == ThroughputInit /\ [][ThroughputNext]_vars

(***************************************************************************)
(* The two users of the pod store, side by side: the scheduling throughput *)
(* measurement and WaitForPods.                                            *)
(***************************************************************************)
\* one scheduling throughput measurement, or one WaitForPods that waits for
\* a single pod
SetupInit ==
    \/ MeasurementInit /\ mKind = "schedulingThroughput"
    \/ WaitInit /\ desired = 1

SetupNext ==
    \/ ExecuteBadAction
    \/ StExecuteStart
    \/ StExecuteGather
    \/ StGatherSummarize
    \/ StDispose
    \/ \E g \in 1..MaxCalls : SamplerSelect(g)
    \/ \E g \in 1..MaxCalls : SamplerStopped(g)
    \/ \E g \in 1..MaxCalls : SamplerTick(g, IdleCounts)
    \/ \E g \in 1..MaxCalls : SamplerAppend(g)
    \/ WaitNext

SetupSpec == SetupInit /\ [][SetupNext]_vars

(***************************************************************************)
(* The retry and poll loops: WaitForPods and the throughput sampler loop   *)
(* on a select over a stop channel and a timer; probe readiness and the    *)
(* three Prometheus disk operations call wait.Poll(interval, timeout,      *)
(* condition).                                                             *)
(***************************************************************************)
\* the smaller of two numbers
Min(a, b) == IF a < b THEN a ELSE b

\* probes.go 40-41, in seconds
checkProbesReadyInterval == 15

checkProbesReadyTimeout == 300

\* experimental.go 38-40, in seconds
gcloudRetryInterval == 20

snapshotRetryTimeout == 600

deleteRetryTimeout == 120

\* the loops that call wait.Poll
PollKinds == { "probesReady", "diskMetadata", "diskSnapshot", "diskDelete" }

\* the loops that select on a stop channel and time.After(interval)
SelectKinds == { "waitForPods", "sampler" }

LoopKinds == PollKinds \cup SelectKinds

\* the interval and the timeout each call of wait.Poll passes, in seconds
PollTiming(kind) ==
    CASE kind = "probesReady" ->
            [interval |-> checkProbesReadyInterval,
             timeout |-> checkProbesReadyTimeout]
      [] kind = "diskMetadata" -> [interval |-> 10, timeout |-> 2 * 60]
      [] kind = "diskSnapshot" ->
            [interval |-> gcloudRetryInterval, timeout |-> snapshotRetryTimeout]
      [] kind = "diskDelete" ->
            [interval |-> gcloudRetryInterval, timeout |-> deleteRetryTimeout]

\* wait.Poll: the ticks its poller can send before the timeout
Ticks(kind) == PollTiming(kind).timeout \div PollTiming(kind).interval

\* a poller whose timeout never fires
ChannelNeverClosed(kind, checks) == FALSE

\* wait.Poll: the poller closes its channel when the timeout has passed,
\* which is the case at the latest once every tick has been consumed; the
\* check made on the closed channel is the last one
ChannelClosedBy(kind, checks) == checks > Ticks(kind)

\* "never": the condition of the loop never holds and never fails, and
\* nobody closes its stop channel; "any": the surroundings are free
LoopEnvs == { "never", "any" }

\* what one call of the condition can return
ConditionOutcomes(kind, env) ==
    IF env = "never" THEN { "retry" }
    ELSE CASE kind = "probesReady" -> { "retry", "done", "error" }
           [] kind = "diskMetadata" -> { "retry", "done", "error" }
           [] kind \in { "diskSnapshot", "diskDelete" } -> { "retry", "done" }
           [] kind = "waitForPods" -> { "retry", "done" }
           [] kind = "sampler" -> { "retry" }

\* how the function that holds the loop can come to it
EntryOutcomes(kind) ==
    CASE kind \in { "probesReady", "sampler" } -> { "loop" }
      [] kind = "waitForPods" -> { "loop", "error" }
      [] kind = "diskMetadata" -> { "loop", "nil", "error" }
      [] kind \in { "diskSnapshot", "diskDelete" } -> { "loop", "nil", "error" }

LoopInit ==
    /\ IdleFramework
    /\ IdleNK
    /\ IdleCount
    /\ IdleWFP
    /\ IdleMeasurement
    /\ \E kind \in LoopKinds, env \in LoopEnvs :
          loop = [kind |-> kind, env |-> env, pc |-> "called", checks |-> 0,
                  stop |-> FALSE, result |-> "none"]

\* the code before the loop: the early returns of isEnabled and of the
\* missing disk metadata, the error of NewPodStore
RetryEnter ==
    /\ loop # << >>
    /\ loop.pc = "called"
    /\ \E entry \in EntryOutcomes(loop.kind) :
          loop' = IF entry = "loop"
                  THEN [loop EXCEPT !.pc = "polling"]
                  ELSE [loop EXCEPT !.pc = "returned", !.result = entry]
    /\ UNCHANGED nonLoop

\* wait.Poll: one tick, one call of the condition; an error or true ends
\* the loop, and so does the check made once the channel is closed
PollCheck ==
    /\ loop # << >>
    /\ loop.kind \in PollKinds
    /\ loop.pc = "polling"
    /\ \E outcome \in ConditionOutcomes(loop.kind, loop.env), slow \in BOOLEAN :
          LET checks == loop.checks + 1
              closed == slow \/ ChannelClosedBy(loop.kind, checks)
          IN  loop' =
                 CASE outcome = "done" ->
                         [loop EXCEPT !.checks = checks, !.pc = "returned",
                                      !.result = "nil"]
                   [] outcome = "error" ->
                         [loop EXCEPT !.checks = checks, !.pc = "returned",
                                      !.result = "error"]
                   [] outcome = "retry" /\ closed ->
                         [loop EXCEPT !.checks = checks, !.pc = "returned",
                                      !.result = "ErrWaitTimeout"]
                   [] outcome = "retry" /\ ~closed ->
                         [loop EXCEPT !.checks = checks]
    /\ UNCHANGED nonLoop

\* the timer fires before the stop channel is closed: the timer case of the
\* select is taken and one more iteration begins. The count of the
\* iterations stays at MaxLoopChecks once it got there.
SelectTick ==
    /\ loop # << >>
    /\ loop.kind \in SelectKinds
    /\ loop.pc = "polling"
    /\ ~loop.stop
    /\ loop' = [loop EXCEPT !.pc = "listing",
                            !.checks = Min(loop.checks + 1, MaxLoopChecks)]
    /\ UNCHANGED nonLoop

\* the body of the timer case: WaitForPods returns when the pods converged,
\* the sampler appends its sample; otherwise back to the select
SelectIterates ==
    /\ loop # << >>
    /\ loop.kind \in SelectKinds
    /\ loop.pc = "listing"
    /\ \E outcome \in ConditionOutcomes(loop.kind, loop.env) :
          loop' = IF outcome = "done"
                  THEN [loop EXCEPT !.pc = "returned", !.result = "nil"]
                  ELSE [loop EXCEPT !.pc = "polling"]
    /\ UNCHANGED nonLoop

\* the caller closes the stop channel
RetryCloseStop ==
    /\ loop # << >>
    /\ loop.kind \in SelectKinds
    /\ loop.env = "any"
    /\ loop.pc \in { "polling", "listing" }
    /\ ~loop.stop
    /\ loop' = [loop EXCEPT !.stop = TRUE]
    /\ UNCHANGED nonLoop

\* the stop case of the select
SelectStopped ==
    /\ loop # << >>
    /\ loop.kind \in SelectKinds
    /\ loop.pc = "polling"
    /\ loop.stop
    /\ loop' = [loop EXCEPT !.pc = "returned", !.result = "stopped"]
    /\ UNCHANGED nonLoop

LoopNext ==
    \/ RetryEnter
    \/ PollCheck
    \/ SelectTick
    \/ SelectIterates
    \/ RetryCloseStop
    \/ SelectStopped

\* the goroutine of a loop is scheduled, its timers fire and its condition
\* returns; the caller is free never to close the stop channel
LoopSpec ==
    /\ LoopInit
    /\ [][LoopNext]_vars
    /\ WF_vars(RetryEnter)
    /\ WF_vars(PollCheck)
    /\ WF_vars(SelectTick)
    /\ WF_vars(SelectIterates)
    /\ WF_vars(SelectStopped)

(***************************************************************************)
(* Framework: the automanaged namespaces.  A namespace is known by the     *)
(* number its name ends with.  fw is the counter, the call in progress     *)
(* with its loop index or its goroutines, the namespaces that CreateName-  *)
(* space has made since the last delete, the namespaces the cluster holds, *)
(* the error list of the delete in progress, and what the calls returned.  *)
(***************************************************************************)
\* the namespaceCount values CreateAutomanagedNamespaces is called with
NamespaceCounts == 0..MaxNamespaces

\* a delete that leaves the counter as it is
CounterKept(count) == count

\* wait_for_pods.go 252: f.automanagedNamespaceCount = 0
CounterAfterDelete(count) == 0

\* wait_for_pods.go 160-173: newFramework
FrameworkInit ==
    /\ IdleLoops
    /\ IdleNK
    /\ IdleCount
    /\ IdleWFP
    /\ IdleMeasurement
    /\ fw = [count |-> 0, pc |-> "idle", want |-> 0, i |-> 0, made |-> {},
             exists |-> {}, del |-> << >>, errs |-> {}, failed |-> {},
             log |-> << >>]

\* wait_for_pods.go 201-205: CreateAutomanagedNamespaces is called; it
\* returns at once when the counter is not 0
FwCreateCall ==
    /\ fw # << >>
    /\ fw.pc = "idle"
    /\ Len(fw.log) < MaxFwCalls
    /\ \E n \in NamespaceCounts :
         IF fw.count # 0
         THEN fw' = [fw EXCEPT
                        !.log = Append(@, [op |-> "create", err |-> "already",
                                           errs |-> {}])]
         ELSE fw' = [fw EXCEPT !.pc = "create", !.want = n, !.i = 1]
    /\ UNCHANGED nonFramework

\* wait_for_pods.go 205-211: one turn of the loop: the namespace is
\* created and counted, or the error of CreateNamespace is returned
FwCreateNamespace ==
    /\ fw # << >>
    /\ fw.pc = "create"
    /\ fw.i <= fw.want
    /\ \/ fw' = [fw EXCEPT !.count = @ + 1,
                           !.made = @ \cup { fw.i },
                           !.exists = @ \cup { fw.i },
                           !.i = @ + 1]
       \/ fw' = [fw EXCEPT !.pc = "idle", !.want = 0, !.i = 0,
                           !.log = Append(@, [op |-> "create",
                                              err |-> "create",
                                              errs |-> {}])]
    /\ UNCHANGED nonFramework

\* wait_for_pods.go 205, 212: the loop is over, nil is returned
FwCreateReturn ==
    /\ fw # << >>
    /\ fw.pc = "create"
    /\ fw.i > fw.want
    /\ fw' = [fw EXCEPT !.pc = "idle", !.want = 0, !.i = 0,
                        !.log = Append(@, [op |-> "create", err |-> "nil",
                                           errs |-> {}])]
    /\ UNCHANGED nonFramework

\* wait_for_pods.go 235-250: DeleteAutomanagedNamespaces is called: a new
\* error list, one goroutine for each counted namespace
FwDeleteCall ==
    /\ fw # << >>
    /\ fw.pc = "idle"
    /\ Len(fw.log) < MaxFwCalls
    /\ fw' = [fw EXCEPT !.pc = "delete",
                        !.del = [i \in 1..fw.count |-> "delete"],
                        !.errs = {}, !.failed = {}]
    /\ UNCHANGED nonFramework

\* wait_for_pods.go 242-245: a goroutine calls DeleteNamespace; its error
\* is appended to the list and the goroutine returns
FwDeleteNamespace(i) ==
    /\ fw # << >>
    /\ fw.pc = "delete"
    /\ i \in DOMAIN fw.del
    /\ fw.del[i] = "delete"
    /\ \/ fw' = [fw EXCEPT !.del[i] = "wait"]
       \/ fw' = [fw EXCEPT !.del[i] = "done",
                           !.errs = @ \cup { i },
                           !.failed = @ \cup { i }]
    /\ UNCHANGED nonFramework

\* wait_for_pods.go 246-248: the goroutine waits for the namespace to be
\* gone; the error of the wait is appended to the list
FwWaitForDelete(i) ==
    /\ fw # << >>
    /\ fw.pc = "delete"
    /\ i \in DOMAIN fw.del
    /\ fw.del[i] = "wait"
    /\ \/ fw' = [fw EXCEPT !.del[i] = "done", !.exists = @ \ { i }]
       \/ fw' = [fw EXCEPT !.del[i] = "done",
                           !.errs = @ \cup { i },
                           !.failed = @ \cup { i }]
    /\ UNCHANGED nonFramework

\* wait_for_pods.go 251-253: wg.Wait() has returned: the counter is reset
\* and the error list returned
FwDeleteReturn ==
    /\ fw # << >>
    /\ fw.pc = "delete"
    /\ \A i \in DOMAIN fw.del : fw.del[i] = "done"
    /\ fw' = [fw EXCEPT !.pc = "idle",
                        !.count = CounterAfterDelete(@),
                        !.made = {},
                        !.del = << >>,
                        !.errs = {}, !.failed = {},
                        !.log = Append(@, [op |-> "delete", err |-> "nil",
                                           errs |-> fw.errs])]
    /\ UNCHANGED nonFramework

FrameworkNext ==
    \/ FwCreateCall
    \/ FwCreateNamespace
    \/ FwCreateReturn
    \/ FwDeleteCall
    \/ \E i \in 1..MaxNamespaces : FwDeleteNamespace(i)
    \/ \E i \in 1..MaxNamespaces : FwWaitForDelete(i)
    \/ FwDeleteReturn

FrameworkSpec == FrameworkInit /\ [][FrameworkNext]_vars

(***************************************************************************)
(* Claims about NodeKiller.                                                *)
(***************************************************************************)
\* the complete logs of a worker: the stop command failed, or stop,
\* downtime and reboot were all carried out
CompleteLogs ==
    { << "stopErr" >>, << "stop", "sleep", "reboot" >>,
      << "stop", "sleep", "rebootErr" >> }

\* C1: a node picked in some round is marked in killedNodes before any later
\* round picks, no round picks a node that is marked, so no node is picked
\* twice in a run; and no step ever removes a node from killedNodes.
C1_NeverReselected ==
    [][ /\ killedNodes \subseteq killedNodes'
        /\ \A i, j \in DOMAIN history' :
              i < j => /\ history'[i].picked \subseteq history'[j].killed
                       /\ history'[j].picked \cap history'[j].killed = {}
                       /\ history'[i].picked \cap history'[j].picked = {}
        /\ \A i \in DOMAIN history' :
              pc' \notin {"picked", "kill"} =>
                  history'[i].picked \subseteq killedNodes' ]_vars

\* C1 witness: a second round has picked a node while a node picked by the
\* first round was listed again as schedulable
C1_Witness ==
    /\ pc = "picked"
    /\ Len(history) = 2
    /\ history[2].picked # {}
    /\ history[1].picked \cap allNodes # {}

\* C2: what pickNodes returns is part of the round's node listing and holds
\* no node of a Prometheus pod of the round's pod listing (a pod with a
\* non-empty NodeName) and no node of killedNodes.
C2_PickExcludes ==
    pc = "picked" =>
        /\ Range(nodes) \subseteq allNodes
        /\ \A i \in DOMAIN promPods :
              promPods[i] # NoNode => promPods[i] \notin Range(nodes)
        /\ Range(nodes) \cap killedNodes = {}

\* C2 witness: pickNodes returned nodes from a listing that also held the
\* node of a Prometheus pod and a killed node
C2_Witness ==
    /\ pc = "picked"
    /\ nodes # << >>
    /\ killedNodes \cap allNodes # {}
    /\ \E i \in DOMAIN promPods :
          promPods[i] \in allNodes \ killedNodes

\* C4: a worker is alive only while the round that started it is inside
\* kill: never while Run sleeps, picks or waits for the timer, and never
\* together with a worker of another round.
C4_JoinBarrier ==
    \A n \in NodeNames :
        Alive(workers[n]) =>
            /\ pc \in {"kill", "wait"}
            /\ workers[n].round = round

\* C4 witness: the second round has a worker alive and the first round had
\* workers too
C4_Witness ==
    /\ round = 2
    /\ Len(history) = 2
    /\ history[1].picked # {}
    /\ \E n \in NodeNames : Alive(workers[n])

\* C5: a worker that has returned did its whole sequence unless its own
\* command failed, whatever happened to the other workers; the WaitGroup
\* counts exactly the workers still to return, and once all have returned
\* wg.Wait() can return, so the round ends and the loop goes on.
C5_FailureIsolated ==
    /\ \A n \in NodeNames :
          workers[n].pc = "exit" => workers[n].log \in CompleteLogs
    /\ pc \in {"kill", "wait"} =>
          wg = Cardinality({ n \in NodeNames : Alive(workers[n]) })
               + Cardinality({ i \in DOMAIN nodes : i >= idx })
    /\ (pc = "wait" /\ \A n \in NodeNames : ~Alive(workers[n])) =>
          ENABLED KillWait

\* C5 witness: in one round the stop command failed on a node, another
\* worker rebooted its node, and the join is reached
C5_Witness ==
    /\ pc = "wait"
    /\ wg = 0
    /\ \E m, n \in NodeNames :
          /\ workers[m].pc = "exit" /\ workers[m].log = << "stopErr" >>
          /\ workers[n].pc = "exit"
          /\ workers[n].log = << "stop", "sleep", "reboot" >>

\* C6 as claimed: once a worker of a round has run, every node picked for
\* the round is in killedNodes.
C6_AllMarkedBeforeFanOut ==
    \A n \in NodeNames :
        (workers[n].pc # "idle" /\ workers[n].log # << >>) =>
            Range(nodes) \subseteq killedNodes

\* C6 amended: a node is in killedNodes from the moment its own worker
\* exists, and killedNodes is written only by an iteration of kill's loop,
\* which inserts the node it is about to start a worker for.
C6_MarkedBeforeOwnWorker ==
    [][ /\ \A n \in NodeNames :
              workers'[n].pc # "idle" => n \in killedNodes'
        /\ killedNodes' # killedNodes =>
              /\ pc = "kill" /\ idx <= Len(nodes) /\ idx' = idx + 1
              /\ killedNodes' = killedNodes \cup {nodes[idx]}
              /\ \A n \in NodeNames \ {nodes[idx]} :
                    workers'[n] = workers[n] ]_vars

\* C6 witness: a worker has run its stop command while a later node of the
\* same round is not yet marked
C6_Witness ==
    /\ pc = "kill"
    /\ idx <= Len(nodes)
    /\ nodes[idx] \notin killedNodes
    /\ \E n \in killedNodes : workers[n].log # << >>

\* C7: once stopCh is closed it stays closed and the loop calls its function
\* no more (the round count stays); a worker that is running is not taken
\* away by the close, and when it returns it has done its sequence.
C7_StopHaltsRounds ==
    [][ /\ stopCh => (stopCh' /\ round' = round)
        /\ \A n \in NodeNames :
              (stopCh /\ Alive(workers[n])) => workers'[n].pc # "idle"
        /\ \A n \in NodeNames :
              (stopCh' /\ workers'[n].pc = "exit") =>
                  workers'[n].log \in CompleteLogs ]_vars

\* C7 witness: stopCh was closed while workers were running, and every
\* worker of that round has since stopped, kept down and rebooted its node
C7_Witness ==
    /\ stopCh
    /\ inFlight
    /\ pc = "wait"
    /\ wg = 0
    /\ \A i \in DOMAIN nodes :
          /\ workers[nodes[i]].pc = "exit"
          /\ workers[nodes[i]].log = << "stop", "sleep", "reboot" >>

\* C3 as claimed: pickNodes returns min(|N|, floor(r * |N|)) nodes for the
\* configured rate r = num/den and the eligible set N.
C3_CountIsFloorOfProduct ==
    pickLen # << >> =>
        LET n     == eligibleLen
            floor == (failureRate.num * n) \div failureRate.den
        IN  pickLen[1] = IF floor < n THEN floor ELSE n

\* the eligible set of the round whose pickNodes has just returned
EligibleNow == Eligible(allNodes, promPods, killedNodes)

\* C8 as claimed: with rate 0.3 a round selects exactly 3 nodes as long as
\* at least 3 nodes are eligible.
C8_ThreeWhilePoolAtLeastThree ==
    (pc = "picked" /\ Cardinality(EligibleNow) >= 3) => Len(nodes) = 3

\* C8 amended: with rate 0.3 a round over 10 eligible nodes selects exactly 3
\* distinct nodes whatever the shuffle; a later round selects
\* floor(0.3 * e) of its e eligible nodes, which is fewer than 3 as soon as
\* e is below 10 (7 -> 2, 5 -> 1, 4 -> 1, 3 -> 0).
C8_ThreeOfTen ==
    pc = "picked" =>
        LET e == Cardinality(EligibleNow)
        IN  /\ Cardinality(Range(nodes)) = Len(nodes)
            /\ Range(nodes) \subseteq EligibleNow
            /\ e = 10 => Len(nodes) = 3
            /\ e < 10 => Len(nodes) < 3
            /\ Len(nodes) = (3 * e) \div 10

\* C8 witness: the second round of the scenario picks 2 of its 7 eligible
\* nodes after a first round that picked 3 of 10
C8_Witness ==
    /\ pc = "picked"
    /\ Len(history) = 2
    /\ Cardinality(history[1].picked) = 3
    /\ Cardinality(EligibleNow) = 7
    /\ Len(nodes) = 2

(***************************************************************************)
(* Claims about WaitForPods.                                               *)
(***************************************************************************)
\* C9: WaitForPods returns nil exactly when a poll has listed a snapshot
\* with running = desired and running + inactive = all pods, and it returns
\* at that poll; any other return is the timeout error, after stopCh was
\* closed, or the creation error, before any poll.
C9_SuccessIffConverged ==
    /\ (wfpPc = "returned") <=> (wfpResult # << >>)
    /\ wfpPc \in {"loop", "returned"} =>
          (convergedSeen <=> (wfpPc = "returned" /\ wfpResult.err = "nil"))
    /\ wfpPc = "returned" =>
          /\ wfpResult.err \in {"nil", "timeout", "creation"}
          /\ wfpResult.err = "timeout" => wfpStopCh
          /\ wfpResult.err = "creation" => polls = 0

\* C9 witness: success at the second poll, on a snapshot that holds an
\* inactive pod beside the desired running ones
C9_Witness ==
    /\ wfpPc = "returned"
    /\ wfpResult.err = "nil"
    /\ polls = 2
    /\ desired >= 1
    /\ podsStatus.Inactive >= 1

\* C10 as claimed: the running count of the timeout error is the number of
\* running pods of the snapshot listed last (oldPods).
C10_TimeoutNamesLatestCounts ==
    (wfpPc = "returned" /\ wfpResult.err = "timeout") =>
        /\ wfpResult.desired = desired
        /\ wfpResult.running =
              Cardinality({ p \in PodsOf(oldPods) : oldPods[p] = "Running" })

StartGatherKinds == {"schedulingThroughput", "resourceUsage", "probes"}

\* C12 as claimed: a call of start on an instance whose earlier start
\* succeeded, with no gather and no Dispose called since, returns an error.
C12_SecondStartFails ==
    [][ ( /\ mKind \in StartGatherKinds
          /\ mStarted
          /\ mCalls' = mCalls + 1
          /\ mLast'.op = "start" )
        => mLast'.err # "nil" ]_vars

\* C13 as claimed: a gather on an instance on which no start has succeeded
\* returns an error and no summary.
C13_GatherBeforeStartFails ==
    ( /\ mKind \in StartGatherKinds
      /\ mLast.op = "gather"
      /\ ~mEverStarted )
    => (mLast.err = "error" /\ ~mLast.summary)

\* C14: a Dispose on an instance on which start was never invoked makes no
\* external call, does not panic and changes no field of the instance; the
\* same holds for a Dispose of the scheduling-throughput measurement that
\* directly follows a Dispose.
C14_DisposeWithoutStartIsNoOp ==
    [][ ( /\ mCalls' = mCalls + 1
          /\ mLast'.op = "dispose"
          /\ \/ ~StartInvoked
             \/ mKind = "schedulingThroughput" /\ mLast.op = "dispose" )
        => ( /\ mExt' = {}
             /\ UNCHANGED << stVars, ruVars, prVars >> ) ]_vars

\* C14 witness: Dispose was called on a probes measurement that was asked
\* to gather but never to start
C14_Witness ==
    /\ mKind = "probes"
    /\ ~prSkip
    /\ mOps = << "gather", "dispose" >>
    /\ mLast.op = "dispose"
    /\ mExt = {}
    /\ ~prFramework

\* no sampler goroutine, pod store or resource gatherer of the instance is
\* running
NoCollectorRunning ==
    /\ \A g \in DOMAIN stSamplers :
          stSamplers[g].pc = "exited" /\ stSamplers[g].storeStopped
    /\ \A g \in DOMAIN ruGatherers : ruGatherers[g] = "stopped"

\* C15 as claimed: once Dispose was the latest call, and for as long as no
\* further call is made, every collector the instance launched ends up
\* stopped.
C15_CollectorsStopAfterDispose ==
    (mLast.op = "dispose") ~> (mLast.op # "dispose" \/ NoCollectorRunning)

\* C16: a gather of resource usage, probes or API responsiveness that
\* returns a MetricViolationError returns a summary with it.
C16_ViolationComesWithSummary ==
    (mLast.op = "gather" /\ mLast.err = "violation") => mLast.summary

\* C16 witness: Gather of API responsiveness returned a violation, raised
\* by a breaching call, together with the summary
C16_Witness ==
    /\ mKind = "apiResponsiveness"
    /\ apiPc = "returned"
    /\ mLast = Returned("gather", TRUE, "violation")
    /\ Len(badMetrics) > 0

\* C17 as claimed: a call that returns a summary returns no error other
\* than a MetricViolationError.
C17_OnlyViolationComesWithSummary ==
    (mLast.summary /\ mLast.err # "nil") => mLast.err = "violation"

(***************************************************************************)
(* Claims about API responsiveness.                                        *)
(***************************************************************************)
\* the i-th call of metrics.ApiCalls breaches the threshold of its verb and
\* scope
Breaches(i) ==
    LET c == metrics[i]
    IN  \/ c.verb # "LIST" /\ c.latency > resourceThreshold
        \/ c.verb = "LIST" /\ c.scope = "cluster"
              /\ c.latency > clusterThreshold
        \/ c.verb = "LIST" /\ c.scope # "cluster"
              /\ c.latency > namespaceThreshold

\* C18 as claimed: every Gather returns the summary, and returns a
\* violation iff some call breaches its threshold.
C18_SummaryAlwaysViolationIffBreach ==
    (mKind = "apiResponsiveness" /\ mLast.op = "gather") =>
        /\ mLast.summary
        /\ (mLast.err = "violation") <=> (\E i \in DOMAIN metrics : Breaches(i))

\* C18 amended: a Gather that fails to gather the calls, to print the
\* summary or to read the summary name returns that error and no summary,
\* whatever the latencies; every other Gather returns the summary, with a
\* violation iff some call breaches its threshold and with no error
\* otherwise.
C18_SummaryUnlessFailedViolationIffBreach ==
    (mKind = "apiResponsiveness" /\ mLast.op = "gather") =>
        /\ mLast.err \in {"nil", "violation", "error"}
        /\ mLast.summary <=> (mLast.err # "error")
        /\ mLast.err = "violation" => \E i \in DOMAIN metrics : Breaches(i)
        /\ mLast.err = "nil" => \A i \in DOMAIN metrics : ~Breaches(i)

\* C18 witness: a Gather over calls of which only the one of lowest latency
\* breaches its threshold returned the summary and the violation
C18_Witness ==
    /\ mKind = "apiResponsiveness"
    /\ apiPc = "returned"
    /\ mLast.summary
    /\ mLast.err = "violation"
    /\ Len(metrics) >= 2
    /\ Breaches(Len(metrics))
    /\ \A i \in 1..(Len(metrics) - 1) : ~Breaches(i)

\* C19: the threshold used for a call is the resource threshold when the
\* verb is not LIST, whatever the scope; the cluster threshold for LIST
\* with scope cluster; the namespace threshold for LIST with any other
\* scope, the empty one included.
C19_ThresholdByVerbAndScope ==
    \A k \in DOMAIN apiLogged :
        LET c == metrics[apiLogged[k].call]
            t == apiLogged[k].threshold
        IN  /\ c.verb # "LIST" => t = resourceThreshold
            /\ (c.verb = "LIST" /\ c.scope = "cluster") => t = clusterThreshold
            /\ (c.verb = "LIST" /\ c.scope # "cluster") => t = namespaceThreshold

\* C19 witness: one Gather looked up a LIST call of empty scope and a call
\* of another verb with scope cluster
C19_Witness ==
    /\ apiPc = "returned"
    /\ \E k \in DOMAIN apiLogged :
          /\ metrics[apiLogged[k].call].verb = "LIST"
          /\ metrics[apiLogged[k].call].scope = ""
          /\ apiLogged[k].threshold = namespaceThreshold
    /\ \E k \in DOMAIN apiLogged :
          /\ metrics[apiLogged[k].call].verb = "PUT"
          /\ metrics[apiLogged[k].call].scope = "cluster"
          /\ apiLogged[k].threshold = resourceThreshold

\* C20: the loop goes through the calls in descending latency order; when
\* it is done, the calls logged are exactly the first min(5, n) of that
\* order and every breaching call, each logged once, and the calls that
\* make up the violation are exactly the breaching ones, whatever their
\* rank.
C20_TopFiveAndEveryBreachLogged ==
    /\ \A i, j \in DOMAIN metrics :
          i < j => metrics[i].latency >= metrics[j].latency
    /\ \A k \in DOMAIN apiLogged :
          /\ apiLogged[k].call < apiIdx
          /\ \A l \in DOMAIN apiLogged :
                k < l => apiLogged[k].call < apiLogged[l].call
    /\ apiPc = "returned" =>
          /\ { apiLogged[k].call : k \in DOMAIN apiLogged }
               = (1..Min(topToPrint, Len(metrics)))
                    \cup { i \in DOMAIN metrics : Breaches(i) }
          /\ { badMetrics[k] : k \in DOMAIN badMetrics }
               = { i \in DOMAIN metrics : Breaches(i) }
          /\ Len(badMetrics) = Cardinality({ i \in DOMAIN metrics : Breaches(i) })

\* C20 witness: of six calls the sixth breaches its threshold and is logged
\* with a warning although one of higher latency keeps its own
C20_Witness ==
    /\ apiPc = "returned"
    /\ Len(metrics) > topToPrint
    /\ Breaches(Len(metrics))
    /\ \E i \in 1..topToPrint : ~Breaches(i)
    /\ \E k \in DOMAIN apiLogged :
          apiLogged[k].call = Len(metrics) /\ apiLogged[k].warning


(***************************************************************************)
(* Claims about the resource constraints and verifySummary.                *)
(***************************************************************************)
\* the container a message is about: the last piece of the name it prints
ContainerOf(name) == << name[Len(name)] >>

\* C21: no message of a violation is about a container that has no entry in
\* the constraints file, whatever its usage; an entry whose CPU (memory)
\* ceiling is unset in the file holds the maximum value after start, never
\* zero, and no CPU (memory) message is about such a container.
C21_UnconfiguredNeverViolates ==
    /\ \A c \in DOMAIN resourceConstraints :
          /\ rcFile[c].CPUConstraint = 0 =>
                resourceConstraints[c].CPUConstraint = MaxFloat64
          /\ rcFile[c].MemoryConstraint = 0 =>
                resourceConstraints[c].MemoryConstraint = MaxUint64
    /\ rcPc = "verified" =>
          \A i \in DOMAIN rcResult.messages :
              LET msg == rcResult.messages[i]
                  c   == ContainerOf(msg.Name)
              IN  /\ c \in DOMAIN rcFile
                  /\ msg.resource = "CPU" => rcFile[c].CPUConstraint # 0
                  /\ msg.resource = "memory" =>
                        rcFile[c].MemoryConstraint # 0

\* C21 witness: a container without an entry has the largest usage, the
\* other one has an entry with no CPU ceiling, uses CPU and breaches its
\* memory ceiling: the violation holds the memory message alone
C21_Witness ==
    /\ rcPc = "verified"
    /\ DOMAIN rcFile = { << "apiserver" >> }
    /\ rcFile[<< "apiserver" >>].CPUConstraint = 0
    /\ Len(rcSummary) = 2
    /\ rcSummary[1].Cpu = MaxUsage
    /\ rcSummary[2].Cpu = MaxUsage
    /\ rcSummary[2].Mem = MaxUsage
    /\ rcResult.err = "violation"
    /\ rcResult.count = 1

\* the entry breaches the CPU ceiling the file gives its container
BreachesCpu(entry) ==
    LET c == ContainerOf(entry.Name)
    IN  /\ c \in DOMAIN rcFile
        /\ rcFile[c].CPUConstraint # 0
        /\ entry.Cpu > rcFile[c].CPUConstraint

\* the entry breaches the memory ceiling the file gives its container
BreachesMem(entry) ==
    LET c == ContainerOf(entry.Name)
    IN  /\ c \in DOMAIN rcFile
        /\ rcFile[c].MemoryConstraint # 0
        /\ entry.Mem > rcFile[c].MemoryConstraint

\* C22 as claimed: verifySummary returns the violation error iff some
\* container breaches a ceiling, and the error carries one message per
\* breaching container.
C22_OneMessagePerBreachingContainer ==
    rcPc = "verified" =>
        LET breaching == { i \in DOMAIN rcSummary :
                             BreachesCpu(rcSummary[i])
                                 \/ BreachesMem(rcSummary[i]) }
        IN  /\ rcResult.err = "violation" <=> breaching # {}
            /\ rcResult.err \in {"violation", "nil"}
            /\ rcResult.count = Cardinality(breaching)
            /\ Len(rcResult.messages) = rcResult.count

\* C22, amended: verifySummary returns the violation error iff some
\* container breaches a ceiling; the error carries one message per breached
\* ceiling, in the order of the summary, CPU before memory: one or two per
\* breaching container.
C22_OneMessagePerBreachedCeiling ==
    rcPc = "verified" =>
        LET breachedCpu == { i \in DOMAIN rcSummary : BreachesCpu(rcSummary[i]) }
            breachedMem == { i \in DOMAIN rcSummary : BreachesMem(rcSummary[i]) }
            about(i, resource) ==
                { k \in DOMAIN rcResult.messages :
                    /\ rcResult.messages[k].Name = rcSummary[i].Name
                    /\ rcResult.messages[k].resource = resource }
        IN  /\ rcResult.err = "violation"
                  <=> (breachedCpu \cup breachedMem # {})
            /\ rcResult.err \in {"violation", "nil"}
            /\ rcResult.count
                  = Cardinality(breachedCpu) + Cardinality(breachedMem)
            /\ Len(rcResult.messages) = rcResult.count
            /\ \A i \in DOMAIN rcSummary :
                  /\ Cardinality(about(i, "CPU"))
                        = IF i \in breachedCpu THEN 1 ELSE 0
                  /\ Cardinality(about(i, "memory"))
                        = IF i \in breachedMem THEN 1 ELSE 0

\* C22 witness: one container breaches both of its ceilings, the other one
\* its CPU ceiling only: three messages
C22_Witness ==
    /\ rcPc = "verified"
    /\ Len(rcSummary) = 2
    /\ BreachesCpu(rcSummary[1])
    /\ BreachesMem(rcSummary[1])
    /\ BreachesCpu(rcSummary[2])
    /\ ~BreachesMem(rcSummary[2])
    /\ rcResult.count = 3


(***************************************************************************)
(* Claims about percentiles.                                               *)
(***************************************************************************)
\* the smaller and the larger of two numbers
Lower(a, b) == IF a < b THEN a ELSE b

Higher(a, b) == IF a > b THEN a ELSE b

\* a rule that takes floor(p*n/100) as the index
CanonicalIndexFloor(p, n) ==
    Higher(0, Lower(n - 1, (p * n) \div 100))

\* the canonical rule: index ceil(p*n/100) - 1 clamped to [0, n-1]
CanonicalIndex(p, n) ==
    Higher(0, Lower(n - 1, ((p * n + 99) \div 100) - 1))

\* percentile(p, values) by the canonical rule on the ascending sort
Percentile(p, values) ==
    SortFloat64s(values)[CanonicalIndex(p, Len(values)) + 1].delta

\* C23: by the canonical rule percentile(100, values) is the maximum of
\* values for every non-empty values, and percentile(50, [1,2,3,4]) is 2.
C23_CanonicalPercentile ==
    /\ Percentile(50, [i \in 1..4 |-> [by |-> 1, delta |-> i]]) = 2
    /\ stSeries # << >> =>
          /\ \A i \in DOMAIN stSeries :
                stSeries[i].delta <= Percentile(100, stSeries)
          /\ \E i \in DOMAIN stSeries :
                stSeries[i].delta = Percentile(100, stSeries)

\* C23 witness: gather has summarised a series that holds 1, 2, 3, 4: its
\* median by the rule is 2, its 100th percentile 4, and gather reports the
\* same median
C23_Witness ==
    /\ mLast = Returned("gather", TRUE, "nil")
    /\ Len(stSeries) = 4
    /\ { stSeries[i].delta : i \in DOMAIN stSeries } = 1..4
    /\ Percentile(50, stSeries) = 2
    /\ Percentile(100, stSeries) = 4
    /\ stSummary[1].Perc50.delta = 2

\* C29: for every non-empty series of n samples and p in {50, 90, 99} the
\* index gather computes is ceil(n*p/100) - 1, lies in [0, n-1], and the
\* percentile reported is the element of the ascending series at that
\* index: what the canonical clamped rule gives.
C29_GatherPercentilesInBounds ==
    (stSummary # << >> /\ stSummary[1].samples # << >>) =>
        LET sorted == stSummary[1].samples
            n      == Len(sorted)
            ok(p, perc) ==
                /\ PercentileIndex(n, p) = ((n * p + 99) \div 100) - 1
                /\ PercentileIndex(n, p) \in 0..(n - 1)
                /\ ~perc.panic
                /\ perc.delta = sorted[PercentileIndex(n, p) + 1].delta
                /\ perc.delta = Percentile(p, sorted)
        IN  /\ \A i \in 1..(n - 1) : sorted[i].delta <= sorted[i + 1].delta
            /\ ok(50, stSummary[1].Perc50)
            /\ ok(90, stSummary[1].Perc90)
            /\ ok(99, stSummary[1].Perc99)

\* C29 witness: a summary of 12 samples, whose three percentiles are read
\* at three different indices, the median being 0 and the others 1
C29_Witness ==
    /\ stSummary # << >>
    /\ Len(stSummary[1].samples) = 12
    /\ PercentileIndex(12, 50) = 5
    /\ PercentileIndex(12, 90) = 10
    /\ PercentileIndex(12, 99) = 11
    /\ stSummary[1].Perc50.delta = 0
    /\ stSummary[1].Perc90.delta = 1
    /\ mLast = Returned("gather", TRUE, "nil")


(***************************************************************************)
(* Claims about the diff of two snapshots.                                 *)
(***************************************************************************)
\* C25: the pods the diff of a poll lists as added are in the new snapshot
\* and not in the old one, the pods it lists as removed are in the old one
\* and not in the new one, and no pod is in both lists; this holds for the
\* diff of every poll of WaitForPods.
C25_AddedAndRemovedDisjoint ==
    polls > 0 =>
        /\ wfpDiff.added \cap wfpDiff.deleted = {}
        /\ wfpDiff.added \subseteq PodNames
        /\ wfpDiff.deleted \subseteq PodNames
        /\ wfpPc = "loop" =>
              /\ wfpDiff.added \subseteq PodsOf(oldPods)
              /\ wfpDiff.deleted \cap PodsOf(oldPods) = {}

\* C25 witness: a poll in which one pod disappeared and another appeared
C25_Witness ==
    /\ polls > 0
    /\ wfpDiff.added # {}
    /\ wfpDiff.deleted # {}


(***************************************************************************)
(* Claims about the retry and poll loops.                                  *)
(***************************************************************************)
\* C24 as stated: every loop (WaitForPods, the sampler, probe readiness,
\* disk metadata, disk snapshot, disk delete) returns after a bounded number
\* of iterations even when its condition never holds and nobody closes its
\* stop channel.
C24_EveryLoopTimesOut ==
    (loop.env = "never") => <>(loop.pc = "returned")

\* C24, amended: the four loops that call wait.Poll have an interval and a
\* timeout of their own, make at most timeout/interval + 1 checks and then
\* return, whatever their condition does; WaitForPods and the sampler have
\* an interval only and return once their stop channel is closed.
C24_PollLoopsTimeOut ==
    /\ [](loop.kind \in PollKinds =>
             /\ PollTiming(loop.kind).interval > 0
             /\ PollTiming(loop.kind).timeout >= PollTiming(loop.kind).interval
             /\ loop.checks <= Ticks(loop.kind) + 1)
    /\ (loop.kind \in PollKinds) => <>(loop.pc = "returned")
    /\ (loop.kind \in SelectKinds) => [](loop.stop => <>(loop.pc = "returned"))

\* C24 witness: a disk snapshot whose command failed at every one of its
\* 31 checks has returned the timeout error of wait.Poll
C24_Witness ==
    /\ loop.kind = "diskSnapshot"
    /\ loop.env = "never"
    /\ loop.pc = "returned"
    /\ loop.result = "ErrWaitTimeout"
    /\ loop.checks = Ticks("diskSnapshot") + 1


(***************************************************************************)
(* Claims about the creation of the pod store.                             *)
(***************************************************************************)
\* the latest call was a start that made its stop channel and then failed
\* to create the pod store: it returned an error and no sampler holds the
\* channel s.stopCh names
StoreCreationFailed ==
    /\ mKind = "schedulingThroughput"
    /\ mLast = Returned("start", FALSE, "error")
    /\ stStopCh # NoChan
    /\ \A g \in DOMAIN stSamplers : stSamplers[g].ch # stStopCh

\* C26: a scheduling-throughput start whose pod store cannot be created
\* returns an error and leaves the measurement not running: it launched no
\* sampler, a gather that follows fails as not running and stops nothing,
\* and a start that follows and returns no error has launched a sampler.  A
\* WaitForPods whose pod store cannot be created returns the error without
\* a single poll.
C26_SetupErrorLeavesNothingRunning ==
    /\ [](StoreCreationFailed => ~stIsRunning /\ ~mStarted)
    /\ [][(mKind = "schedulingThroughput" /\ mCalls' = mCalls + 1
             /\ mLast'.op = "start" /\ mLast'.err = "error")
          => /\ stSamplers' = stSamplers
             /\ stIsRunning' = FALSE
             /\ stClosed' = stClosed]_vars
    /\ [][(StoreCreationFailed /\ mCalls' = mCalls + 1
             /\ mLast'.op \in { "gather", "gathering" })
          => /\ mLast' = Returned("gather", FALSE, "error")
             /\ stClosed' = stClosed]_vars
    /\ [][(StoreCreationFailed /\ mCalls' = mCalls + 1 /\ mLast'.op = "start")
          => (mLast'.err = "nil" =>
                 stIsRunning' /\ Len(stSamplers') = Len(stSamplers) + 1)]_vars
    /\ []((wfpResult # << >> /\ wfpResult.err = "creation")
          => polls = 0 /\ wfpPc = "returned" /\ wfpDiff = << >>)

\* C26 witness: the first start failed on the pod store (a channel was
\* made, no sampler launched), the gather after it failed, and a second
\* start then succeeded
C26_Witness ==
    /\ mKind = "schedulingThroughput"
    /\ mOps = << "start", "gather", "start" >>
    /\ stChans = 2
    /\ Len(stSamplers) = 1
    /\ stSamplers[1].ch = 2
    /\ mLast = Returned("start", FALSE, "nil")
    /\ stIsRunning



(***************************************************************************)
(* Claims about the action parameter.                                      *)
(***************************************************************************)
\* C27: on every measurement that dispatches on an action (scheduling
\* throughput, resource usage, probes), an Execute whose action parameter
\* is missing or names no action returns an error and leaves the instance
\* as it was: nothing started, nothing stopped, no external call.
C27_BadActionFailsAtOnce ==
    [][(mCalls' = mCalls + 1 /\ mOps'[Len(mOps')] = "unknown")
       => /\ mLast' = Returned("unknown", FALSE, "error")
          /\ mExt' = {}
          /\ UNCHANGED << mStarted, stVars, ruVars, prVars >>]_vars


(***************************************************************************)
(* Claims about the sampler of the scheduling throughput measurement.      *)
(***************************************************************************)
\* C28: once gather has stopped the sampler (closed its stop channel), the
\* sampler appends no further sample to the throughput series: no append
\* happens on a closed channel, and none while gather sorts, sums and reads
\* the series.
C28_NoAppendOnceStopped ==
    [][\A g \in DOMAIN stSamplers :
          (stSamplers[g].pc = "append" /\ stSamplers'[g].pc = "loop")
          => /\ stSamplers[g].ch \notin stClosed
             /\ mLast.op # "gathering"]_vars


\* the sum of the deltas among the first n samples that sampler g recorded
RECURSIVE SumBy(_, _, _)
SumBy(series, g, n) ==
    IF n = 0 THEN 0
    ELSE SumBy(series, g, n - 1) +
         (IF series[n].by = g THEN series[n].delta ELSE 0)

\* C30: each sample a sampler records is the scheduled count of its tick
\* less the count of its previous tick (0 before the first); so at every
\* moment the deltas a run has recorded add up to the scheduled count it
\* observed at its latest tick.
C30_DeltasSumToLatestCount ==
    \A g \in DOMAIN stSamplers :
        SumBy(stSeries, g, Len(stSeries)) = stSamplers[g].lastScheduledCount


(***************************************************************************)
(* Claims about the polls of WaitForPods.                                  *)
(***************************************************************************)
\* C31: the diff of every poll is taken between the snapshot the poll
\* before it listed (the initial one for the first poll) and the snapshot
\* it lists itself; so a pod one poll listed as added is not listed as
\* added again by the next poll, and likewise for a pod listed as removed.
C31_DiffAgainstPreviousPoll ==
    [][(polls' = polls + 1)
       => /\ wfpPc' = "loop" =>
                /\ wfpDiff'.added = PodsOf(oldPods') \ PodsOf(oldPods)
                /\ wfpDiff'.deleted = PodsOf(oldPods) \ PodsOf(oldPods')
          /\ wfpDiff'.added \cap PodsOf(oldPods) = {}
          /\ wfpDiff'.deleted \subseteq PodsOf(oldPods)
          /\ polls > 0 =>
                /\ wfpDiff.added \subseteq PodsOf(oldPods)
                /\ wfpDiff'.added \cap wfpDiff.added = {}
                /\ wfpDiff'.deleted \cap wfpDiff.deleted = {}]_vars

\* C31 witness: the second poll lists one pod as added and does not list
\* again the pod that the loop already held
C31_Witness ==
    /\ polls = 2
    /\ wfpPc = "loop"
    /\ wfpDiff.added # {}
    /\ PodsOf(oldPods) \ wfpDiff.added # {}


\* C32: a pod store that WaitForPods created is stopped exactly once when
\* WaitForPods returns, on convergence as on the stop signal, and not
\* before; when the creation failed no store is stopped.
C32_StoreStoppedOnceOnReturn ==
    /\ wfpPc \in { "create", "loop" } => storeStops = 0
    /\ wfpPc = "returned" =>
          storeStops = IF wfpResult.err = "creation" THEN 0 ELSE 1

\* C32 witness: WaitForPods polled, then returned on the stop signal, its
\* store stopped once
C32_Witness ==
    /\ wfpPc = "returned"
    /\ wfpResult.err = "timeout"
    /\ polls > 0
    /\ storeStops = 1


\* the samplers that are alive and whose stop channel is not closed
Unsignalled ==
    { g \in DOMAIN stSamplers :
        stSamplers[g].pc # "exited" /\ stSamplers[g].ch \notin stClosed }

\* C33: over every sequence of start, gather and Dispose calls, failed and
\* repeated ones included, a stop channel is closed at most once (no call
\* closes a closed or a nil channel), and at most one sampler is alive that
\* has not been signalled to stop.
C33_CloseOnceOneSampler ==
    /\ []("panic" \notin mExt)
    /\ [][stClosed' # stClosed
          => /\ stStopCh # NoChan
             /\ stStopCh \notin stClosed
             /\ stClosed' = stClosed \cup { stStopCh }]_vars
    /\ [](mKind = "schedulingThroughput" => Cardinality(Unsignalled) <= 1)


(***************************************************************************)
(* More claims about NodeKiller.                                           *)
(***************************************************************************)
\* what a worker can have done so far: the beginnings of its sequences
WorkerLogs ==
    { << >>, << "stopErr" >>, << "stop" >>, << "stop", "sleep" >>,
      << "stop", "sleep", "reboot" >>, << "stop", "sleep", "rebootErr" >> }

\* C34: a worker runs the stop command, then sleeps for the simulated
\* downtime, then runs the reboot command, in this order; when the stop
\* command fails it returns without sleeping or rebooting, and its node,
\* like every node a worker was started for, stays in killedNodes and is
\* not picked again.
C34_WorkerSequence ==
    /\ [](\A n \in NodeNames :
             /\ workers[n].log \in WorkerLogs
             /\ workers[n].log = << "stopErr" >> => workers[n].pc = "exit"
             /\ workers[n].pc # "idle" => n \in killedNodes)
    /\ [][ /\ \A n \in NodeNames :
                 (workers[n].log = << "stopErr" >> /\ workers'[n] # workers[n])
                 => workers'[n] = IdleWorker
           /\ killedNodes \subseteq killedNodes'
           /\ pc' = "picked" => Range(nodes') \cap killedNodes' = {} ]_vars

\* C34 witness: in the second round the stop command failed on a node and
\* its worker returned, while another worker of the round has slept and
\* is about to reboot its node; both nodes are marked, as are the nodes of
\* the first round
C34_Witness ==
    /\ Len(history) = 2
    /\ history[1].picked # {}
    /\ history[1].picked \subseteq killedNodes
    /\ \E m, n \in history[2].picked :
          /\ workers[n].pc = "exit"
          /\ workers[n].log = << "stopErr" >>
          /\ workers[m].pc = "reboot"
          /\ workers[m].log = << "stop", "sleep" >>
          /\ { m, n } \subseteq killedNodes


\* C35: a round whose node listing or pod listing fails kills no node and
\* leaves killedNodes as it was: it starts no worker and goes straight to
\* the wait for the next interval, from where the next round is started
\* unless stopCh is closed.
C35_FailedListingSkipsRound ==
    /\ [][(pc = "pick" /\ pc' \notin { "pick", "picked" })
          => /\ pc' = "timer"
             /\ killedNodes' = killedNodes
             /\ workers' = workers
             /\ wg' = wg
             /\ history' = history]_vars
    /\ [](pc = "timer" => ENABLED TimerFires)
    /\ []((pc = "loop" /\ ~stopCh /\ round < MaxRounds) => ENABLED LoopCheck)

\* C35 witness: the first round failed on a listing (it left no entry in
\* the history), the second round has picked nodes
C35_Witness ==
    /\ round = 2
    /\ Len(history) = 1
    /\ pc = "picked"
    /\ nodes # << >>
    /\ killedNodes = {}


\* C36: when a gather is followed by a new successful start, the summary
\* of the next gather is computed from the samples recorded since that
\* start only: the samples the earlier gather summarised are not among
\* the samples of the new summary, so the two sets of samples together are
\* no more than the series holds.
C36_SummaryOfLatestRunOnly ==
    [][(mKind = "schedulingThroughput" /\ mLast.op = "gathering"
          /\ mLast' = Returned("gather", TRUE, "nil") /\ stSummary # << >>)
       => Len(stSummary'[1].samples) + Len(stSummary[1].samples)
             <= Len(stSeries')]_vars


\* the last call was a start of the probes that failed after initialize:
\* at the namespace creation, the object creation or the readiness wait
PrStartFailedLate ==
    /\ mKind = "probes"
    /\ mLast = Returned("start", FALSE, "error")
    /\ "createNamespace" \in mExt

\* C37: the start time of the probes is set only by a start that created
\* the namespace and the objects, saw the probes ready and returned nil;
\* a start that fails at one of these steps returns the error and leaves
\* the measurement not started: a gather then fails without a query, a
\* further start is not rejected and can succeed, and a Dispose still
\* deletes the probes namespace and waits for the deletion.
C37_StartTimeOnlyAfterSetup ==
    /\ [][prStartTime' # prStartTime
          => /\ prStartTime'
             /\ mLast' = Returned("start", FALSE, "nil")
             /\ { "createNamespace", "createObjects" } \subseteq mExt'
             /\ prFramework' /\ prNamespace']_vars
    /\ [](PrStartFailedLate => ~prStartTime /\ prFramework)
    /\ [][(mKind = "probes" /\ ~prSkip /\ ~prStartTime
              /\ mCalls' = mCalls + 1 /\ mLast'.op = "gather")
          => mLast' = Returned("gather", FALSE, "error") /\ mExt' = {}]_vars
    /\ []((PrStartFailedLate /\ mCalls < MaxCalls)
             => ENABLED (PrExecuteStart /\ prStartTime'))
    /\ [][(PrStartFailedLate /\ mCalls' = mCalls + 1
              /\ mLast'.op = "dispose")
          => /\ { "deleteNamespace", "waitForDeleteNamespace" }
                   \subseteq mExt'
             /\ ~prStartTime']_vars
    /\ [][prFramework => prFramework']_vars

\* a start failed after the namespace was created, and the Dispose that
\* followed deleted the namespace
C37_Witness ==
    /\ mKind = "probes"
    /\ mOps = <<"start", "dispose">>
    /\ ~prStartTime
    /\ "deleteNamespace" \in mExt
    /\ ~prNamespace


\* the nodes of the fixed cluster that host no Prometheus pod and are not
\* in killedNodes
Survivors == Eligible(allNodes, promPods, killedNodes)

\* the nodes of the fixed cluster that host no Prometheus pod
NoMonitoringPod == EligibleIgnoringKilled(allNodes, promPods, killedNodes)

\* every round with an eligible node leaves an eligible node unselected,
\* and killedNodes stops growing
SurvivorRounds ==
    /\ []((pc = "picked" /\ Survivors # {})
             => Survivors \ Range(nodes) # {})
    /\ [][killedNodes \subseteq killedNodes'
             /\ killedNodes' \subseteq allNodes]_vars
    /\ <>[][killedNodes' = killedNodes]_vars

\* C38 as stated: with a failure rate below 1 and the same nodes every
\* round, every round leaves an eligible node unselected, a node without
\* a monitoring pod is outside killedNodes after every round, and
\* killedNodes eventually stops growing.
C38_SurvivorAlways ==
    /\ SurvivorRounds
    /\ [](NoMonitoringPod # {} => Survivors # {})

\* C38, amended: with a failure rate below 1 and the same nodes every
\* round, every round leaves an eligible node unselected and killedNodes
\* eventually stops growing; as long as the monitoring pods are listed on
\* the same nodes, a node without a monitoring pod stays outside
\* killedNodes.
C38_SurvivorWhilePodsStay ==
    /\ SurvivorRounds
    /\ [][(Survivors # {} /\ promPods' = promPods) => Survivors' # {}]_vars

\* with the largest rate below 1 all nodes but one have been killed, and
\* the one left hosts no monitoring pod
C38_Witness ==
    /\ failureRate = BelowOne
    /\ pc = "timer"
    /\ Cardinality(killedNodes) = NumNodeNames - 1
    /\ Survivors # {}


(***************************************************************************)
(* Claims about the automanaged namespaces.                                *)
(***************************************************************************)
\* C39: the counter of the Framework is the number of namespaces created
\* with success since the last delete; a CreateAutomanagedNamespaces call
\* made while the counter is not 0 returns an error and creates nothing,
\* also when the counter was left by a call that failed part-way;
\* DeleteAutomanagedNamespaces returns when every goroutine is done, one
\* for each counted namespace, it returns the errors of exactly the
\* deletions that failed, the other namespaces being gone, and it leaves
\* the counter at 0.
C39_CounterAndDelete ==
    /\ [](fw.count = Cardinality(fw.made))
    /\ [][(fw.pc = "idle" /\ fw.count # 0 /\ fw'.pc # "delete")
          => fw' = [fw EXCEPT
                       !.log = Append(@, [op |-> "create", err |-> "already",
                                          errs |-> {}])]]_vars
    /\ [][(fw.pc = "delete" /\ fw'.pc = "idle")
          => /\ DOMAIN fw.del = 1..fw.count
             /\ \A i \in 1..fw.count : fw.del[i] = "done"
             /\ fw'.log[Len(fw'.log)] =
                   [op |-> "delete", err |-> "nil", errs |-> fw.failed]
             /\ fw'.exists \cap ((1..fw.count) \ fw.failed) = {}
             /\ fw'.count = 0]_vars

\* a create failed after two namespaces, the next create was rejected,
\* and the delete removed the first namespace and returned the error of
\* the second
C39_Witness ==
    /\ fw # << >>
    /\ Len(fw.log) = 3
    /\ fw.log[1] = [op |-> "create", err |-> "create", errs |-> {}]
    /\ fw.log[2] = [op |-> "create", err |-> "already", errs |-> {}]
    /\ fw.log[3] = [op |-> "delete", err |-> "nil", errs |-> {2}]
    /\ fw.exists = {2}
    /\ fw.count = 0

=============================================================================
